---- MODULE Spec2Model ----
(***************************************************************************)
(* Model of the strategy-driven page scraper of MarkItDown.GUI:            *)
(*   Scripts/scrape_page.py       browser (Playwright) backend             *)
(*   Scripts/scrape_page_http.py  static fetch (requests + BeautifulSoup)  *)
(* The orchestration loop of main() of both backends is one state machine  *)
(* (the backend is an input chosen in Init); extract_json_from_text, the   *)
(* strategy decoder, is a second state machine over bounded texts.         *)
(* Time is in seconds; every blocking call advances `elapsed` by a         *)
(* duration drawn from a small set.                                        *)
(***************************************************************************)
EXTENDS Integers, Sequences, FiniteSets, TLC

VARIABLES
    backend,             \* "browser" (scrape_page.py) or "http" (scrape_page_http.py)
    site,                \* "graph": links among GraphUrls; "chain": every page links to a new URL
    url,                 \* sys.argv[1]
    pc,                  \* position of main()
    all_pages,           \* list of stored PageResults
    visited_urls,        \* set of normalized URLs
    current_url,         \* URL of the page loop; <<>> is None / empty
    final_url,           \* URL the extraction is run under (http: resp.url)
    page_num,
    strategy,            \* "None" or a strategy
    elapsed,             \* time.monotonic() - scrape_start
    round_num,
    prev_content_count,
    clicks,              \* result of click_load_more_buttons in this round
    extracted,           \* records built by the extraction of this round (0 once the
                         \* page's rounds are left)
    oracle_result,       \* what the oracle call just made did (NoRequest once the loop
                         \* has moved on)
    navigated,           \* every URL passed to page.goto / fetch_html, in order
    nav_error,           \* the page.goto / fetch_html just made raised (FALSE once the
                         \* loop has moved on)
    output,              \* <<>>: no file written; <<doc>>: the JSON document written
    exit_code,           \* -1 while running
    failure,             \* what raised into the outer except of main()
    dec,                 \* state of extract_json_from_text
    ext,                 \* state of extract_with_strategy
    ldr,                 \* state of click_load_more_buttons
    pag,                 \* state of find_next_page_with_strategy
    twin                 \* the site both backends are run against, one after the
                         \* other, and what the first run left

crawlVars == <<backend, site, url, pc, all_pages, visited_urls, current_url, final_url,
               page_num, strategy, elapsed, round_num, prev_content_count, clicks,
               extracted, oracle_result, navigated, nav_error, output, exit_code,
               failure, twin>>

\* the functions modelled step by step, each under a specification of its own
engVars == <<ext, ldr, pag>>

vars == <<crawlVars, dec, engVars>>

-----------------------------------------------------------------------------
(* Bounds of the model *)

MaxCount == 2        \* content records one extraction can build
MaxClicks == 1       \* clicks one loader run can report
MaxChain == 101      \* distinct URLs a chain site can serve after the start page
MaxAtoms == 2        \* characters and escapes in a string literal of a decoder input
MaxTail == 3         \* characters after the stem of a URL given to the normalization
MaxNodes == 3        \* elements of a document given to the extraction engine
TwinPages == 3       \* pages of a site both backends are run against

(* Program constants *)

SCRAPE_TIME_LIMIT == 240
max_pages == 100
SAFETY_MARGIN == 30
REFINE_MARGIN == 60
CLAUDE_TIMEOUT == 300

-----------------------------------------------------------------------------
(* URLs are sequences of characters; "x" stands for scheme and host. *)

Min(S) == CHOOSE m \in S : \A n \in S : m <= n
Max(S) == CHOOSE m \in S : \A n \in S : m >= n

NoUrl == <<>>

\* str.split(ch)[0]
SplitFirst(s, ch) ==
    LET at == {i \in 1..Len(s) : s[i] = ch}
    IN  IF at = {} THEN s ELSE SubSeq(s, 1, Min(at) - 1)

\* str.rstrip(ch)
RStrip(s, ch) ==
    LET keep == {i \in 1..Len(s) : s[i] # ch}
    IN  IF keep = {} THEN <<>> ELSE SubSeq(s, 1, Max(keep))

\* variant: the trailing slashes are kept
normalize_noslash(u) == SplitFirst(SplitFirst(u, "?"), "#")

\* current_url.split("?")[0].split("#")[0].rstrip("/")
normalize(u) == RStrip(SplitFirst(SplitFirst(u, "?"), "#"), "/")

GraphUrls == { <<"x", "/", "a">>,
               <<"x", "/", "a", "/">>,
               <<"x", "/", "b", "?", "p">>,
               <<"x", "/", "c", "#", "f">> }

Digit(k) == <<"0", "1", "2", "3", "4", "5", "6", "7", "8", "9">>[k + 1]

\* the n-th page of a chain site: x/<n in three digits>
ChainUrl(n) == <<"x", "/", Digit(n \div 100), Digit((n \div 10) % 10), Digit(n % 10)>>

RedirectTarget == <<"x", "/", "b", "?", "p">>

-----------------------------------------------------------------------------
(* Strategy oracle *)

Strategies == {"S1", "S2"}

\* what claude_call's subprocess did: how it ended and, when it exited 0, its stdout
\* ("empty": nothing, "prose": text holding no JSON, "array": JSON that is no object,
\*  a strategy: text holding that strategy document)
OracleResults ==
    { [how |-> "timeout", stdout |-> "empty"],
      [how |-> "exit_error", stdout |-> "empty"],
      [how |-> "exception", stdout |-> "empty"] }
    \cup { [how |-> "returned", stdout |-> t] : t \in {"empty", "prose", "array"} \cup Strategies }

NoRequest == [how |-> "none", stdout |-> "empty"]

\* claude_call: the response text, or "None"
claude_call(res) == IF res.how = "returned" THEN res.stdout ELSE "None"

\* variant: a response without JSON falls back to a default strategy
generate_scraping_strategy_default(res) ==
    IF res.how = "returned" /\ res.stdout \in Strategies
    THEN [ok |-> TRUE, strategy |-> res.stdout]
    ELSE IF res.how = "returned" /\ res.stdout = "prose"
    THEN [ok |-> TRUE, strategy |-> "S1"]
    ELSE [ok |-> FALSE, strategy |-> "None"]

\* generate_scraping_strategy: [ok |-> FALSE] when it raises
generate_scraping_strategy(res) ==
    LET response_text == claude_call(res)
    IN  IF response_text \in {"None", "empty"} THEN [ok |-> FALSE, strategy |-> "None"]
        ELSE IF response_text = "prose" THEN [ok |-> FALSE, strategy |-> "None"]
        ELSE IF response_text = "array" THEN [ok |-> FALSE, strategy |-> "None"]
        ELSE [ok |-> TRUE, strategy |-> response_text]

OracleDurations(res) == IF res.how = "timeout" THEN {CLAUDE_TIMEOUT} ELSE {30, 240}
NavDurations == {0, 30}
LoaderDurations == {30, 60}

-----------------------------------------------------------------------------
(* Decisions of main() *)

remaining_time(t) == SCRAPE_TIME_LIMIT - t

\* variant: the page loop without the page-count cap
PageLoopGuard_nocap(cur, pn) == cur # NoUrl

\* while current_url and page_num < max_pages
PageLoopGuard(cur, pn) == cur # NoUrl /\ pn < max_pages

\* variant: the visited set is never consulted
AlreadyVisited_never(normalized, visited) == FALSE

\* if normalized in visited_urls: break
AlreadyVisited(normalized, visited) == normalized \in visited

\* variant: the budget check without the safety margin
BudgetLeft_nomargin(t) == SCRAPE_TIME_LIMIT - t > 0

\* if remaining_time() <= 30: break   /   while remaining_time() > 30
BudgetLeft(t) == remaining_time(t) > SAFETY_MARGIN

\* if remaining_time() > 60 (before a refinement)
RefineBudgetLeft(t) == remaining_time(t) > REFINE_MARGIN

\* variant: the content-not-found error is never re-raised
FatalNoContent_never(be, pn, rn) == FALSE

\* except RuntimeError: whether the content-not-found error is re-raised
FatalNoContent(be, pn, rn) == IF be = "browser" THEN rn = 1 ELSE pn = 1

\* variant: a later round replaces the result whenever the count differs
GrewContent_differs(cur, prev) == cur # prev

\* elif current_content_count > prev_content_count
GrewContent(cur, prev) == cur > prev

\* variant: a round without clicks does not end the rounds
NoMoreClicks_never(k) == FALSE

\* if clicks == 0: break
NoMoreClicks(k) == k = 0

\* variant: the assignment happens even when the request failed
StrategyAfterRefine_always(old, gen) == gen.strategy

\* strategy after a refinement request (try: strategy = ... except Exception: log)
StrategyAfterRefine(old, gen) == IF gen.ok THEN gen.strategy ELSE old

\* variant: every stored page is numbered 1
PageResult_first(u, title, strat, count, pn) ==
    [url |-> u, title |-> title, page_type |-> strat, content |-> count, page_number |-> 1]

PageResult(u, title, strat, count, pn) ==
    [url |-> u, title |-> title, page_type |-> strat, content |-> count, page_number |-> pn]

\* variant: the envelope is built whatever the number of pages
BuildResult_envelope(pages, start) ==
    [url |-> start,
     title |-> IF Len(pages) > 0 THEN pages[1].title ELSE "",
     total_pages |-> Len(pages),
     pages |-> pages,
     scraped_at |-> "now"]

\* the document main() dumps as JSON
BuildResult(pages, start) ==
    IF Len(pages) = 1
    THEN [url |-> pages[1].url, title |-> pages[1].title, page_type |-> pages[1].page_type,
          content |-> pages[1].content, page_number |-> pages[1].page_number,
          scraped_at |-> "now"]
    ELSE [url |-> start,
          title |-> IF Len(pages) > 0 THEN pages[1].title ELSE "",
          total_pages |-> Len(pages),
          pages |-> pages,
          scraped_at |-> "now"]

\* what find_next_page_with_strategy can return on the current page
NextCandidates ==
    IF site = "graph" THEN GraphUrls \cup {NoUrl}
    ELSE IF page_num <= MaxChain THEN {ChainUrl(page_num), NoUrl} ELSE {NoUrl}

\* record counts an extraction can build on the current page
Counts == IF site = "graph" THEN 0..MaxCount ELSE 0..1

-----------------------------------------------------------------------------
(* The orchestration loop: main() of both backends *)

StartUrls == { <<"x", "/", "a">> }

DecIdle == [pc |-> "idle", text |-> <<>>, start_pos |-> 0, open_char |-> "{",
            close_char |-> "}", i |-> 0,
            st |-> [depth |-> 0, in_string |-> FALSE, escape_next |-> FALSE, end_pos |-> 0],
            result |-> [found |-> FALSE, value |-> <<>>]]

\* no second run
TwinIdle == [phase |-> "idle"]

ExtIdle == [pc |-> "idle"]
LdrIdle == [pc |-> "idle"]
PagIdle == [pc |-> "idle"]

\* what a run of click_load_more_buttons did: its return value, and whether the
\* document height changed in one of its iterations
LdrReturned(k, h) == [pc |-> "returned", total_clicks |-> k, height_changed |-> h]

EngIdle == ext = ExtIdle /\ ldr = LdrIdle /\ pag = PagIdle

CrawlInit ==
    /\ backend \in {"browser", "http"}
    /\ site \in {"graph", "chain"}
    /\ url \in (IF site = "graph" THEN StartUrls ELSE {ChainUrl(0)})
    /\ pc = "page_check"
    /\ all_pages = <<>>
    /\ visited_urls = {}
    /\ current_url = url
    /\ final_url = NoUrl
    /\ page_num = 0
    /\ strategy = "None"
    /\ elapsed = 0
    /\ round_num = 0
    /\ prev_content_count = 0
    /\ clicks = 0
    /\ extracted = 0
    /\ oracle_result = NoRequest
    /\ navigated = <<>>
    /\ nav_error = FALSE
    /\ output = <<>>
    /\ exit_code = -1
    /\ failure = "none"
    /\ twin = TwinIdle

\* an exception reaches `except Exception` of main(): log, sys.exit(1)
Raise(why) ==
    /\ pc' = "failed"
    /\ exit_code' = 1
    /\ failure' = why

\* variant: the set remembers the last page only
Visit_last(u, seen) == {u}

\* visited_urls.add(normalized)
Visit(u, seen) == seen \cup {u}

\* top of `while current_url and page_num < max_pages`, up to page_num += 1
PageLoop ==
    /\ pc = "page_check"
    /\ IF /\ PageLoopGuard(current_url, page_num)
          /\ BudgetLeft(elapsed)
          /\ ~AlreadyVisited(normalize(current_url), visited_urls)
       THEN /\ visited_urls' = Visit(normalize(current_url), visited_urls)
            /\ page_num' = page_num + 1
            /\ pc' = "navigate"
       ELSE /\ pc' = "build"
            /\ UNCHANGED <<visited_urls, page_num>>
    /\ UNCHANGED <<backend, site, url, all_pages, current_url, final_url, strategy, elapsed,
                   round_num, prev_content_count, clicks, extracted, oracle_result,
                   navigated, output, exit_code, failure, twin, dec, engVars,
                   nav_error>>

\* where main() goes once the page is loaded and a strategy exists
AfterStrategy == IF backend = "browser" THEN "round_check" ELSE "extract"

\* variant: the replacement goes to the first stored page
ReplaceLast_first(pages, page_data) == [pages EXCEPT ![1] = page_data]

\* all_pages[-1] = page_data
ReplaceLast(pages, page_data) == [pages EXCEPT ![Len(pages)] = page_data]

\* variant: a navigation error ends the crawl in both backends
AfterNavError_fatal(be, pn) == "raise"

\* what the except clause around page.goto / fetch_html does: "continue" with the
\* page, "raise" to main()'s handler, or "break" out of the page loop
AfterNavError(be, pn) ==
    IF be = "browser" THEN "continue"
    ELSE IF pn = 1 THEN "raise" ELSE "break"

\* browser: page.goto inside try/except (a navigation error is logged, the page is kept)
Goto ==
    /\ pc = "navigate"
    /\ backend = "browser"
    /\ \E d \in NavDurations : elapsed' = elapsed + d
    /\ navigated' = Append(navigated, current_url)
    /\ final_url' = current_url
    /\ \E err \in BOOLEAN :
         /\ nav_error' = err
         /\ IF err /\ AfterNavError(backend, page_num) = "raise"
            THEN Raise("navigation") /\ UNCHANGED <<round_num, prev_content_count>>
            ELSE IF err /\ AfterNavError(backend, page_num) = "break"
            THEN pc' = "build" /\ UNCHANGED <<round_num, prev_content_count, exit_code, failure>>
            ELSE IF strategy = "None"
            THEN pc' = "strategy" /\ UNCHANGED <<round_num, prev_content_count, exit_code, failure>>
            ELSE /\ pc' = AfterStrategy /\ round_num' = 0 /\ prev_content_count' = 0
                 /\ UNCHANGED <<exit_code, failure>>
    /\ UNCHANGED <<backend, site, url, all_pages, visited_urls, current_url, page_num,
                   strategy, clicks, extracted, oracle_result, output, twin, dec, engVars>>

\* http: fetch_html; an error is fatal on page 1 and ends the page loop elsewhere
Fetch ==
    /\ pc = "navigate"
    /\ backend = "http"
    /\ \E d \in NavDurations : elapsed' = elapsed + d
    /\ navigated' = Append(navigated, current_url)
    /\ \E err \in BOOLEAN :
         /\ nav_error' = err
         /\ IF err /\ AfterNavError(backend, page_num) = "raise"
            THEN final_url' = final_url /\ Raise("fetch")
            ELSE IF err /\ AfterNavError(backend, page_num) = "break"
            THEN final_url' = final_url /\ pc' = "build" /\ UNCHANGED <<exit_code, failure>>
            ELSE /\ final_url' \in (IF site = "graph" /\ ~err
                                    THEN {current_url, RedirectTarget} ELSE {current_url})
                 /\ pc' = IF strategy = "None" THEN "strategy" ELSE AfterStrategy
                 /\ UNCHANGED <<exit_code, failure>>
    /\ UNCHANGED <<backend, site, url, all_pages, visited_urls, current_url, page_num,
                   strategy, round_num, prev_content_count, clicks, extracted,
                   oracle_result, output, twin, dec, engVars>>

\* if strategy is None: strategy = generate_scraping_strategy(get_page_summary(...))
FirstStrategy ==
    /\ pc = "strategy"
    /\ \E res \in OracleResults :
         /\ \E d \in OracleDurations(res) : elapsed' = elapsed + d
         /\ oracle_result' = res
         /\ LET gen == generate_scraping_strategy(res)
            IN  IF gen.ok
                THEN /\ strategy' = gen.strategy
                     /\ pc' = AfterStrategy
                     /\ UNCHANGED <<exit_code, failure>>
                ELSE /\ strategy' = strategy
                     /\ Raise("strategy")
    /\ round_num' = 0
    /\ prev_content_count' = 0
    /\ nav_error' = FALSE
    /\ UNCHANGED <<backend, site, url, all_pages, visited_urls, current_url, final_url,
                   page_num, clicks, extracted, navigated, output, twin, dec, engVars>>

\* browser: `while remaining_time() > 30`, round_num += 1, click_load_more_buttons
RoundLoop ==
    /\ pc = "round_check"
    /\ IF BudgetLeft(elapsed)
       THEN /\ round_num' = round_num + 1
            /\ \E k \in 0..MaxClicks, h \in BOOLEAN :
                 /\ clicks' = k
                 /\ ldr' = LdrReturned(k, h)
            /\ \E d \in LoaderDurations : elapsed' = elapsed + d
            /\ pc' = "extract"
       ELSE /\ pc' = "paginate"
            /\ UNCHANGED <<round_num, clicks, elapsed, ldr>>
    /\ oracle_result' = NoRequest
    /\ nav_error' = FALSE
    /\ UNCHANGED <<backend, site, url, all_pages, visited_urls, current_url, final_url,
                   page_num, strategy, prev_content_count, extracted,
                   navigated, output, exit_code, failure, twin, dec, ext, pag>>

\* browser: extract_with_strategy and the rest of the round's body
ExtractBrowser ==
    /\ pc = "extract"
    /\ backend = "browser"
    /\ \E c \in Counts :
         /\ extracted' = c
         /\ IF c = 0
            THEN \* RuntimeError
                 /\ IF FatalNoContent(backend, page_num, round_num)
                    THEN Raise("content")
                    ELSE pc' = "paginate" /\ UNCHANGED <<exit_code, failure>>
                 /\ UNCHANGED <<all_pages, prev_content_count>>
            ELSE LET page_data == PageResult(current_url, current_url, strategy, c, page_num)
                 IN  IF round_num = 1 \/ GrewContent(c, prev_content_count)
                     THEN /\ all_pages' = IF round_num = 1
                                          THEN Append(all_pages, page_data)
                                          ELSE ReplaceLast(all_pages, page_data)
                          /\ prev_content_count' = c
                          /\ pc' = IF NoMoreClicks(clicks) THEN "paginate"
                                   ELSE IF RefineBudgetLeft(elapsed) THEN "refine"
                                   ELSE "round_check"
                          /\ UNCHANGED <<exit_code, failure>>
                     ELSE /\ pc' = "paginate"
                          /\ UNCHANGED <<all_pages, prev_content_count, exit_code, failure>>
    /\ ldr' = LdrIdle
    /\ UNCHANGED <<backend, site, url, visited_urls, current_url, final_url, page_num,
                   strategy, elapsed, round_num, clicks, oracle_result, navigated,
                   output, twin, dec, ext, pag, nav_error>>

\* http: extract_with_strategy once per page
ExtractHttp ==
    /\ pc = "extract"
    /\ backend = "http"
    /\ \E c \in Counts :
         /\ extracted' = c
         /\ IF c = 0
            THEN /\ IF FatalNoContent(backend, page_num, round_num)
                    THEN Raise("content")
                    ELSE pc' = "build" /\ UNCHANGED <<exit_code, failure>>
                 /\ UNCHANGED all_pages
            ELSE /\ all_pages' = Append(all_pages,
                                        PageResult(final_url, final_url, strategy, c, page_num))
                 /\ pc' = "paginate"
                 /\ UNCHANGED <<exit_code, failure>>
    /\ oracle_result' = NoRequest
    /\ nav_error' = FALSE
    /\ UNCHANGED <<backend, site, url, visited_urls, current_url, final_url, page_num,
                   strategy, elapsed, round_num, prev_content_count, clicks,
                   navigated, output, twin, dec, engVars>>

\* browser: the strategy is asked for again before the next round
Refine ==
    /\ pc = "refine"
    /\ \E res \in OracleResults :
         /\ \E d \in OracleDurations(res) : elapsed' = elapsed + d
         /\ oracle_result' = res
         /\ strategy' = StrategyAfterRefine(strategy, generate_scraping_strategy(res))
    /\ pc' = "round_check"
    /\ UNCHANGED <<backend, site, url, all_pages, visited_urls, current_url, final_url,
                   page_num, round_num, prev_content_count, clicks, extracted, navigated,
                   output, exit_code, failure, twin, dec, engVars,
                   nav_error>>

\* find_next_page_with_strategy and the update of current_url
Paginate ==
    /\ pc = "paginate"
    /\ \E next_url \in NextCandidates :
         current_url' = IF next_url # NoUrl /\ next_url # current_url THEN next_url ELSE NoUrl
    /\ pc' = "page_check"
    /\ extracted' = 0
    /\ UNCHANGED <<backend, site, url, all_pages, visited_urls, final_url, page_num,
                   strategy, elapsed, round_num, prev_content_count, clicks,
                   oracle_result, navigated, output, exit_code, failure, twin, dec, engVars,
                   nav_error>>

\* after the page loop: build the result and write the JSON file
WriteOutput ==
    /\ pc = "build"
    /\ output' = <<BuildResult(all_pages, url)>>
    /\ pc' = "done"
    /\ exit_code' = 0
    /\ UNCHANGED <<backend, site, url, all_pages, visited_urls, current_url, final_url,
                   page_num, strategy, elapsed, round_num, prev_content_count, clicks,
                   extracted, oracle_result, navigated, failure, twin, dec, engVars,
                   nav_error>>

Init == CrawlInit /\ dec = DecIdle /\ EngIdle

Next ==
    \/ PageLoop
    \/ Goto
    \/ Fetch
    \/ FirstStrategy
    \/ RoundLoop
    \/ ExtractBrowser
    \/ ExtractHttp
    \/ Refine
    \/ Paginate
    \/ WriteOutput

Spec == Init /\ [][Next]_vars

\* the loop is one sequential process: it takes its next step whenever it has one
FairSpec == Spec /\ WF_vars(Next)

-----------------------------------------------------------------------------
(* Properties of the orchestration loop *)

Running == pc \notin {"done", "failed"}

LastPage == all_pages[Len(all_pages)]

\* an oracle request that yields no strategy: timeout, transport or exit error,
\* empty response, or a response no strategy document can be decoded from
FailedRequest(r) ==
    \/ r.how \in {"timeout", "exit_error", "exception"}
    \/ r.how = "returned" /\ r.stdout \in {"empty", "prose", "array"}

\* C1: the record count stored for a page never decreases, whatever step is taken;
\* a round >= 2 whose extraction does not build strictly more records than the
\* stored PageResult holds leaves all_pages as it was and ends the page's rounds.
C1_RoundsMonotonic ==
    [][ /\ \A i \in 1..Len(all_pages) :
              /\ i <= Len(all_pages')
              /\ all_pages'[i].page_number = all_pages[i].page_number
              /\ all_pages'[i].content >= all_pages[i].content
        /\ (pc = "extract" /\ backend = "browser" /\ round_num >= 2
              /\ ~(extracted' > LastPage.content))
            => (all_pages' = all_pages /\ pc' = "paginate") ]_vars

\* round 2 (or later) built fewer records than stored and was discarded
C1_Witness ==
    /\ backend = "browser" /\ pc = "paginate" /\ round_num >= 2
    /\ Len(all_pages) > 0
    /\ extracted > 0 /\ extracted < LastPage.content

\* C2: zero content records on a page >= 2 never ends the crawl Failed.
C2_NoContentFailureAfterPage1 ==
    ~(pc = "failed" /\ failure = "content" /\ page_num >= 2)

\* C3: zero records on page 1 round 1 ends the crawl Failed, with a non-zero exit
\* code, and a failed crawl has written no JSON document.
C3_Page1NoContentFails ==
    /\ [][ (pc = "extract" /\ page_num = 1 /\ (backend = "http" \/ round_num = 1)
              /\ extracted' = 0)
           => (pc' = "failed" /\ exit_code' # 0 /\ output' = <<>>) ]_vars
    /\ [](pc = "failed" => (output = <<>> /\ exit_code # 0))

C3_Witness ==
    pc = "failed" /\ failure = "content" /\ page_num = 1 /\ extracted = 0

\* C4: a failing first strategy request ends the crawl Failed with no JSON written,
\* and the state it leaves is the same for each way of failing.
C4_FirstStrategyFailureFatal ==
    [][ (pc = "strategy" /\ FailedRequest(oracle_result'))
        => /\ pc' = "failed"
           /\ exit_code' = 1
           /\ failure' = "strategy"
           /\ output' = <<>>
           /\ strategy' = "None"
           /\ all_pages' = <<>> ]_vars

\* the first request returned text no strategy could be decoded from
C4_Witness ==
    /\ pc = "failed" /\ failure = "strategy"
    /\ oracle_result = [how |-> "returned", stdout |-> "prose"]

\* C5: a failing refinement leaves the strategy and the stored pages as they were,
\* raises nothing, and hands control back to the round loop.
C5_RefineFailureNonFatal ==
    [][ (pc = "refine" /\ FailedRequest(oracle_result'))
        => /\ strategy' = strategy
           /\ all_pages' = all_pages
           /\ pc' = "round_check"
           /\ exit_code' = exit_code
           /\ failure' = "none" ]_vars

\* a refinement failed with budget left: the next round is about to start
C5_Witness ==
    /\ pc = "round_check" /\ round_num >= 1
    /\ FailedRequest(oracle_result)
    /\ strategy # "None"
    /\ BudgetLeft(elapsed)

C7_Terminates ==
    /\ <>(pc \in {"done", "failed"})
    /\ [](page_num <= max_pages /\ Len(navigated) <= max_pages)

\* the page cap ended a crawl that still had a next page to go to
C7_Witness ==
    /\ pc = "done" /\ page_num = max_pages
    /\ current_url # NoUrl /\ normalize(current_url) \notin visited_urls

\* C8: a page or a round is started only with more than the safety margin left; once
\* a budget check finds the margin used up (positions of the loops: page_check,
\* round_check, and the steps between them), no page or round starts, nothing
\* raises, and the crawl writes the document built from all_pages.
C8_BudgetChecked ==
    /\ [][ (page_num' > page_num \/ round_num' > round_num)
           => SCRAPE_TIME_LIMIT - elapsed > SAFETY_MARGIN ]_vars
    /\ [][ (SCRAPE_TIME_LIMIT - elapsed <= SAFETY_MARGIN
              /\ pc \in {"page_check", "round_check", "paginate", "build"})
           => /\ pc' \in {"page_check", "paginate", "build", "done"}
              /\ page_num' = page_num
              /\ round_num' = round_num
              /\ all_pages' = all_pages
              /\ failure' = "none" ]_vars
    /\ [](pc = "done" => (exit_code = 0 /\ output = <<BuildResult(all_pages, url)>>))

\* the budget ended a crawl that had stored pages and a fresh next page to go to
C8_Witness ==
    /\ pc = "done" /\ SCRAPE_TIME_LIMIT - elapsed <= SAFETY_MARGIN
    /\ Len(all_pages) >= 1
    /\ page_num < max_pages
    /\ current_url # NoUrl /\ normalize(current_url) \notin visited_urls

\* C16 as stated: a navigation error on any page, in either backend, is not fatal
\* and does not skip the page: the crawl goes on to the page's strategy or
\* extraction exactly as after a successful load.
C16_NavErrorNotFatal ==
    [][ (pc = "navigate" /\ nav_error')
        => /\ pc' \in {"strategy", "round_check", "extract"}
           /\ failure' = "none"
           /\ exit_code' = exit_code ]_vars

\* C16 amended: in the browser backend a navigation error is not fatal and does not
\* skip the page; in the http backend a fetch error is fatal on page 1 and on a
\* later page ends the page loop without extracting that page, and the stored
\* pages are written.
C16_NavErrorByBackend ==
    [][ (pc = "navigate" /\ nav_error')
        => /\ all_pages' = all_pages
           /\ page_num' = page_num
           /\ backend = "browser" =>
                /\ pc' \in {"strategy", "round_check"}
                /\ failure' = "none" /\ exit_code' = exit_code
           /\ (backend = "http" /\ page_num = 1) =>
                /\ pc' = "failed" /\ exit_code' = 1 /\ output' = <<>>
           /\ (backend = "http" /\ page_num > 1) =>
                /\ pc' = "build" /\ failure' = "none" /\ exit_code' = exit_code ]_vars

\* the load of page 2 failed in the browser backend and its rounds are about to start
C16_Witness ==
    /\ backend = "browser" /\ nav_error /\ page_num = 2 /\ pc = "round_check"
    /\ BudgetLeft(elapsed)

\* the fetch of page 2 failed in the http backend and page 1 was written
C16_WitnessHttp ==
    /\ backend = "http" /\ nav_error /\ page_num = 2 /\ pc = "done"
    /\ Len(all_pages) = 1

C24_OutputWithinLimit == pc = "done" => elapsed <= SCRAPE_TIME_LIMIT

\* the part of C24 about the oracle call: its timeout is below the margin checked
\* before a round and the margin checked before a refinement
C24_OracleTimeoutBelowMargins ==
    CLAUDE_TIMEOUT < SAFETY_MARGIN /\ CLAUDE_TIMEOUT < REFINE_MARGIN

\* C26: no step removes a URL from visited_urls; a step that starts a page adds
\* exactly one URL, the normalized current URL, which was not in the set, and counts
\* one page; no other step changes the set; the size of the set is page_num.
C26_VisitedGrows ==
    /\ [][ /\ visited_urls \subseteq visited_urls'
           /\ page_num' # page_num =>
                 /\ pc = "page_check"
                 /\ page_num' = page_num + 1
                 /\ normalize(current_url) \notin visited_urls
                 /\ visited_urls' = visited_urls \cup {normalize(current_url)}
           /\ page_num' = page_num => visited_urls' = visited_urls ]_vars
    /\ [](Cardinality(visited_urls) = page_num)

\* the third page was started
C26_Witness ==
    /\ pc = "navigate" /\ page_num = 3
    /\ Cardinality(visited_urls) = 3
    /\ normalize(current_url) \in visited_urls

\* the steps main() takes for the current page once it is navigated to
WithinPage == pc \in {"strategy", "round_check", "extract", "refine", "paginate"}

\* C27: pages are processed one after another: the next page is looked at only
\* after the pagination step, a navigation happens only for the page just started,
\* no step within a page (strategy, loader rounds, extraction, refinement,
\* pagination) starts or navigates to another page, every record stored or replaced
\* carries the number of the page being processed, and the stored records are
\* numbered 1, 2, ..., n in order.
C27_OnePageAtATime ==
    /\ [](\A i \in 1..Len(all_pages) : all_pages[i].page_number = i)
    /\ [](Len(all_pages) <= page_num)
    /\ [][ /\ (pc' = "page_check" /\ pc # "page_check") => pc = "paginate"
           /\ pc' = "navigate" => (pc = "page_check" /\ Len(navigated) = page_num)
           /\ navigated' # navigated =>
                 /\ pc = "navigate"
                 /\ navigated' = Append(navigated, current_url)
                 /\ Len(navigated') = page_num
           /\ WithinPage => (page_num' = page_num /\ navigated' = navigated)
           /\ (WithinPage /\ current_url' # current_url) => pc = "paginate"
           /\ all_pages' # all_pages =>
                 /\ pc = "extract"
                 /\ Len(all_pages') \in {Len(all_pages), Len(all_pages) + 1}
                 /\ all_pages'[Len(all_pages')].page_number = page_num
                 /\ \A i \in 1..(Len(all_pages') - 1) : all_pages'[i] = all_pages[i] ]_vars

\* the third page was stored after the first two, and went through two rounds
C27_Witness ==
    /\ backend = "browser" /\ pc = "paginate"
    /\ page_num = 3 /\ round_num = 2
    /\ Len(all_pages) = 3 /\ Len(navigated) = 3
    /\ all_pages[3].page_number = 3

\* C34: no step changes a PageResult stored for an earlier page; a step that
\* replaces a PageResult belongs to a round >= 2, changes the last entry only, and
\* that entry was stored by the same page; a step that adds a PageResult appends
\* one entry for the current page and leaves the others as they were.
C34_OnlyCurrentPage ==
    [][ /\ \A i \in 1..Len(all_pages) :
              all_pages[i].page_number < page_num =>
                 (i <= Len(all_pages') /\ all_pages'[i] = all_pages[i])
        /\ (all_pages' # all_pages /\ Len(all_pages') = Len(all_pages)) =>
              /\ pc = "extract" /\ round_num >= 2
              /\ LastPage.page_number = page_num
              /\ all_pages'[Len(all_pages)].page_number = page_num
              /\ \A i \in 1..(Len(all_pages) - 1) : all_pages'[i] = all_pages[i]
        /\ Len(all_pages') # Len(all_pages) =>
              /\ pc = "extract" /\ round_num <= 1
              /\ Len(all_pages') = Len(all_pages) + 1
              /\ all_pages'[Len(all_pages')].page_number = page_num
              /\ \A i \in 1..Len(all_pages) : all_pages'[i] = all_pages[i] ]_vars

\* round 2 of the second page replaced that page's entry
C34_Witness ==
    /\ backend = "browser" /\ page_num = 2 /\ round_num = 2
    /\ pc \in {"paginate", "refine", "round_check"}
    /\ Len(all_pages) = 2
    /\ all_pages[1].page_number = 1
    /\ all_pages[2].page_number = 2 /\ all_pages[2].content = 2 /\ extracted = 2

\* a round >= 2 is discarded: its extraction failed or did not grow the record count,
\* all_pages stays as it was and the rounds of the page end
DiscardStep ==
    /\ pc = "extract" /\ backend = "browser" /\ round_num >= 2
    /\ all_pages' = all_pages /\ pc' = "paginate"

\* C35: when a round is discarded, the strategy in force for the pagination step
\* (and so for the next pages) is the one that produced the retained PageResult.
C35_StrategyOfRetainedResult ==
    [][ DiscardStep => strategy' = LastPage.page_type ]_vars

IsBare(doc) == "pages" \notin DOMAIN doc

\* the PageResults held by the document main() wrote
PagesWritten(doc) == IF "pages" \in DOMAIN doc THEN doc.pages ELSE <<doc>>

\* C32: a crawl that ends in Done wrote an output that holds at least one PageResult.
C32_OutputHasPage ==
    pc = "done" => (Len(output) = 1 /\ Len(PagesWritten(output[1])) >= 1)

\* the http backend never writes an output without a page
C32_OutputHasPageHttp ==
    (pc = "done" /\ backend = "http") => Len(PagesWritten(output[1])) >= 1


\* C9: the document written is a bare PageResult with scraped_at exactly when one
\* PageResult was stored; for more than one it is an envelope with total_pages
\* equal to the length of pages, and pages the stored results in visiting order.
C9_OutputShape ==
    pc = "done" =>
        /\ Len(output) = 1
        /\ (IsBare(output[1]) <=> Len(all_pages) = 1)
        /\ IsBare(output[1]) =>
              /\ "scraped_at" \in DOMAIN output[1]
              /\ \A k \in DOMAIN all_pages[1] : output[1][k] = all_pages[1][k]
        /\ Len(all_pages) > 1 =>
              /\ output[1].total_pages = Len(output[1].pages)
              /\ output[1].pages = all_pages
              /\ \A i, j \in 1..Len(all_pages) :
                    i < j => all_pages[i].page_number < all_pages[j].page_number

C9_Witness == pc = "done" /\ Len(all_pages) = 2 /\ ~IsBare(output[1])

-----------------------------------------------------------------------------
(* The strategy decoder: extract_json_from_text.                            *)
(* A text is a sequence of characters; the characters TLA+ strings cannot   *)
(* hold are named.                                                          *)

QUOTE == "dq"        \* "
BSLASH == "bs"       \* \
TICK == "bt"         \* `
SPACE == "sp"
NEWLINE == "nl"

Whitespace == {SPACE, NEWLINE}

\* str.find(ch), 1-based; 0 when absent (Python: -1)
Find(s, ch) ==
    LET at == {i \in 1..Len(s) : s[i] = ch}
    IN  IF at = {} THEN 0 ELSE Min(at)

\* str.strip()
Strip(s) ==
    LET keep == {i \in 1..Len(s) : s[i] \notin Whitespace}
    IN  IF keep = {} THEN <<>> ELSE SubSeq(s, Min(keep), Max(keep))

(* json.loads, as a recognizer of the JSON grammar over these characters:   *)
(* objects, arrays, strings with the escapes \" and \\, numbers of digits   *)
(* "1", whitespace between tokens. Each Parse operator takes the position   *)
(* of the first character and gives the position after the value, 0 when    *)
(* there is no value.                                                       *)

SkipWs(s, i) ==
    LET stop == {j \in i..Len(s) : s[j] \notin Whitespace}
    IN  IF stop = {} THEN Len(s) + 1 ELSE Min(stop)

RECURSIVE StringEnd(_, _)
\* j: a position inside a string literal, after its opening quote
StringEnd(s, j) ==
    IF j > Len(s) THEN 0
    ELSE IF s[j] = QUOTE THEN j + 1
    ELSE IF s[j] = BSLASH
         THEN IF j + 1 <= Len(s) /\ s[j + 1] \in {QUOTE, BSLASH}
              THEN StringEnd(s, j + 2)
              ELSE 0
    ELSE IF s[j] = NEWLINE THEN 0
    ELSE StringEnd(s, j + 1)

ParseString(s, i) == IF i <= Len(s) /\ s[i] = QUOTE THEN StringEnd(s, i + 1) ELSE 0

NumberEnd(s, i) ==
    LET stop == {j \in i..Len(s) : s[j] # "1"}
    IN  IF stop = {} THEN Len(s) + 1 ELSE Min(stop)

RECURSIVE ParseValue(_, _), ParseMembers(_, _), ParseElements(_, _)

\* i: the position of a value's first character
ParseValue(s, i) ==
    IF i > Len(s) THEN 0
    ELSE IF s[i] = "{"
         THEN LET j == SkipWs(s, i + 1)
              IN  IF j <= Len(s) /\ s[j] = "}" THEN j + 1 ELSE ParseMembers(s, j)
    ELSE IF s[i] = "["
         THEN LET j == SkipWs(s, i + 1)
              IN  IF j <= Len(s) /\ s[j] = "]" THEN j + 1 ELSE ParseElements(s, j)
    ELSE IF s[i] = QUOTE THEN ParseString(s, i)
    ELSE IF s[i] = "1" THEN NumberEnd(s, i)
    ELSE 0

\* i: the position of a member's key; gives the position after the closing brace
ParseMembers(s, i) ==
    LET k == ParseString(s, i)
        c == IF k = 0 THEN 0 ELSE SkipWs(s, k)
        v == IF c = 0 \/ c > Len(s) \/ s[c] # ":" THEN 0
             ELSE ParseValue(s, SkipWs(s, c + 1))
        e == IF v = 0 THEN 0 ELSE SkipWs(s, v)
    IN  IF e = 0 \/ e > Len(s) THEN 0
        ELSE IF s[e] = "}" THEN e + 1
        ELSE IF s[e] = "," THEN ParseMembers(s, SkipWs(s, e + 1))
        ELSE 0

\* i: the position of an element; gives the position after the closing bracket
ParseElements(s, i) ==
    LET v == ParseValue(s, i)
        e == IF v = 0 THEN 0 ELSE SkipWs(s, v)
    IN  IF e = 0 \/ e > Len(s) THEN 0
        ELSE IF s[e] = "]" THEN e + 1
        ELSE IF s[e] = "," THEN ParseElements(s, SkipWs(s, e + 1))
        ELSE 0

\* json.loads(s) does not raise
JsonLoads(s) ==
    LET v == ParseValue(s, SkipWs(s, 1))
    IN  v # 0 /\ SkipWs(s, v) = Len(s) + 1

(* re.search(r"```(?:json)?\s*\n?(.*?)\n?```", text, re.DOTALL) *)

IsFence(s, i) == i + 2 <= Len(s) /\ s[i] = TICK /\ s[i + 1] = TICK /\ s[i + 2] = TICK

Fences(s) == {i \in 1..Len(s) : IsFence(s, i)}

HasJsonTag(s, i) ==
    i + 3 <= Len(s) /\ s[i] = "j" /\ s[i + 1] = "s" /\ s[i + 2] = "o" /\ s[i + 3] = "n"

\* the match: [found, group1]. The leftmost opening fence that a later fence
\* closes; (.*?) ends at the first fence after the opening part; the optional tag,
\* the whitespace and the newlines around group 1 are all stripped by .strip() anyway
FenceSearch(s) ==
    LET opens == {p \in Fences(s) : \E q \in Fences(s) : q >= p + 3}
    IN  IF opens = {} THEN [found |-> FALSE, group1 |-> <<>>]
        ELSE LET p == Min(opens)
                 b == IF HasJsonTag(s, p + 3) THEN p + 7 ELSE p + 3
                 w == SkipWs(s, b)
                 q == Min({r \in Fences(s) : r >= w})
                 g == IF w <= q - 1 THEN SubSeq(s, w, q - 1) ELSE <<>>
             IN  [found |-> TRUE, group1 |-> g]

NoResult == [found |-> FALSE, value |-> <<>>]

Found(candidate) == [found |-> TRUE, value |-> candidate]

\* stage 1 of extract_json_from_text: the fenced block, when its interior parses
FencedCandidate(s) ==
    LET m == FenceSearch(s)
        candidate == Strip(m.group1)
    IN  IF m.found /\ JsonLoads(candidate) THEN Found(candidate) ELSE NoResult

\* variant: a '{' is preferred to a '[' that comes before it
FirstOpen_brace(s) ==
    LET first_brace == Find(s, "{")
        first_bracket == Find(s, "[")
    IN  IF first_brace = 0 /\ first_bracket = 0
        THEN [start_pos |-> 0, open_char |-> "{", close_char |-> "}"]
        ELSE IF first_brace # 0
        THEN [start_pos |-> first_brace, open_char |-> "{", close_char |-> "}"]
        ELSE [start_pos |-> first_bracket, open_char |-> "[", close_char |-> "]"]

\* which of '{' and '[' comes first: [start_pos, open_char, close_char], start_pos 0 if none
FirstOpen(s) ==
    LET first_brace == Find(s, "{")
        first_bracket == Find(s, "[")
    IN  IF first_brace = 0 /\ first_bracket = 0
        THEN [start_pos |-> 0, open_char |-> "{", close_char |-> "}"]
        ELSE IF first_brace # 0 /\ (first_bracket = 0 \/ first_brace < first_bracket)
        THEN [start_pos |-> first_brace, open_char |-> "{", close_char |-> "}"]
        ELSE [start_pos |-> first_bracket, open_char |-> "[", close_char |-> "]"]

\* variant: quotes are not tracked, every bracket of the type counts
ScanChar_nostrings(st, c, i, open_char, close_char) ==
    IF c = open_char THEN [st EXCEPT !.depth = st.depth + 1]
    ELSE IF c = close_char
         THEN IF st.depth - 1 = 0
              THEN [st EXCEPT !.depth = 0, !.end_pos = i]
              ELSE [st EXCEPT !.depth = st.depth - 1]
    ELSE st

\* one iteration of `for i in range(start_pos, len(text))` on character c;
\* st: [depth, in_string, escape_next, end_pos]; end_pos # 0 is the break
ScanChar(st, c, i, open_char, close_char) ==
    IF st.escape_next THEN [st EXCEPT !.escape_next = FALSE]
    ELSE IF c = BSLASH /\ st.in_string THEN [st EXCEPT !.escape_next = TRUE]
    ELSE IF c = QUOTE THEN [st EXCEPT !.in_string = ~st.in_string]
    ELSE IF st.in_string THEN st
    ELSE IF c = open_char THEN [st EXCEPT !.depth = st.depth + 1]
    ELSE IF c = close_char
         THEN IF st.depth - 1 = 0
              THEN [st EXCEPT !.depth = 0, !.end_pos = i]
              ELSE [st EXCEPT !.depth = st.depth - 1]
    ELSE st

-----------------------------------------------------------------------------
(* Inputs of the decoder *)

StrAtoms == { <<"a">>, <<"}">>, <<"{">>, <<"]">>, <<"[">>,
              <<BSLASH, QUOTE>>, <<BSLASH, BSLASH>> }

RECURSIVE Bodies(_)
\* the interiors of string literals of at most n atoms
Bodies(n) ==
    IF n = 0 THEN {<<>>}
    ELSE Bodies(n - 1) \cup {b \o a : b \in Bodies(n - 1), a \in StrAtoms}

Str(b) == <<QUOTE>> \o b \o <<QUOTE>>

InnerValues ==
    { <<"{", "}">>, <<"[", "]">> }
    \cup { <<"{">> \o Str(k) \o <<":", "1", "}">> : k \in Bodies(1) }
    \cup { <<"[">> \o Str(k) \o <<"]">> : k \in Bodies(1) }

Values == { <<"1">> } \cup { Str(b) : b \in Bodies(MaxAtoms) } \cup InnerValues

Keys == { <<"a">>, <<"}">>, <<BSLASH, QUOTE>> }

Objects ==
    { <<"{", "}">>, <<"{", SPACE, "}">> }
    \cup { <<"{">> \o Str(k) \o <<":">> \o v \o <<"}">> : k \in Keys, v \in Values }
    \cup { <<"{", NEWLINE>> \o Str(k) \o <<SPACE, ":", SPACE>> \o v \o <<",", NEWLINE>>
             \o Str(<<"a">>) \o <<":", "1", NEWLINE, "}">> : k \in Keys, v \in InnerValues }

Arrays ==
    { <<"[", "]">> }
    \cup { <<"[">> \o v \o <<"]">> : v \in Values }
    \cup { <<"[">> \o v \o <<",", SPACE>> \o w \o <<"]">> : v, w \in InnerValues }

Prefixes == { <<>>, <<QUOTE, "a", ":", SPACE>> }

Suffixes == { <<>>, <<"}", SPACE, "{", "}">>, <<QUOTE, "]", "}">> }

\* prose, then a JSON value, then more text
BareTexts == { p \o v \o x : p \in Prefixes, v \in Objects \cup Arrays, x \in Suffixes }

\* the example of the specification:  Here: {"a":"t } x","b":1}
ExampleText ==
    <<"a", ":", SPACE, "{">> \o Str(<<"a">>) \o <<":">> \o Str(<<"a", SPACE, "}", SPACE, "a">>)
        \o <<",">> \o Str(<<"a">>) \o <<":", "1", "}">>

Fence == <<TICK, TICK, TICK>>

FencedTexts ==
    { p \o Fence \o t \o w \o v \o w \o Fence \o x :
        p \in {<<>>, <<"a", SPACE, "{", "a", "}", SPACE>>},
        t \in {<<>>, <<"j", "s", "o", "n">>},
        w \in {<<>>, <<NEWLINE>>},
        v \in {<<"{", "}">>, <<"{">> \o Str(<<"a">>) \o <<":", "1", "}">>, <<"a">>, <<>>},
        x \in {<<>>, <<SPACE, "{", "}">>} }

\* a first fenced block, then a second one tagged json that holds a JSON value
TwoFenceTexts ==
    { Fence \o <<NEWLINE>> \o a \o <<NEWLINE>> \o Fence \o <<NEWLINE>>
        \o Fence \o <<"j", "s", "o", "n", NEWLINE>> \o v \o <<NEWLINE>> \o Fence :
        a \in {<<"{", "a", "}">>, <<"a">>, <<"{", "}">>},
        v \in {<<"{">> \o Str(<<"a">>) \o <<":", "1", "}">>, <<"[", "1", "]">>} }

\* texts without a JSON value at the first bracket, or without any bracket
BrokenTexts ==
    { <<>>, <<"a">>, <<"a", SPACE, QUOTE>>, <<"{">>, <<"[", "1">>, <<"}", "{">>,
      <<"{", "a", "}">>, <<"{", "]">>, <<"[", "}">>,
      <<"{", QUOTE, "}">>, <<"{", "a", SPACE, "{", "}">>, <<"{", "{", "}">>,
      <<"[", "{", "]">>, <<"{", "a", "}", SPACE, "{", "}">>,
      <<TICK, TICK, TICK, "{", "}">>, <<"{", "}", TICK, TICK, TICK>> }

Texts == BareTexts \cup {ExampleText} \cup FencedTexts \cup TwoFenceTexts \cup BrokenTexts

-----------------------------------------------------------------------------
(* extract_json_from_text as a state machine: dec.pc walks start, find, scan, *)
(* finish, done                                                              *)

\* main() is not running
CrawlIdle ==
    /\ site = "graph"
    /\ url = NoUrl
    /\ pc = "off"
    /\ all_pages = <<>>
    /\ visited_urls = {}
    /\ current_url = NoUrl
    /\ final_url = NoUrl
    /\ page_num = 0
    /\ strategy = "None"
    /\ elapsed = 0
    /\ round_num = 0
    /\ prev_content_count = 0
    /\ clicks = 0
    /\ extracted = 0
    /\ oracle_result = NoRequest
    /\ navigated = <<>>
    /\ nav_error = FALSE
    /\ output = <<>>
    /\ exit_code = -1
    /\ failure = "none"
    /\ twin = TwinIdle

CrawlOff == backend = "browser" /\ CrawlIdle

DecInit ==
    /\ CrawlOff
    /\ EngIdle
    /\ \E t \in Texts : dec = [DecIdle EXCEPT !.pc = "start", !.text = t]

\* the fenced block first
DecFence ==
    /\ dec.pc = "start"
    /\ LET r == FencedCandidate(dec.text)
       IN  IF r.found
           THEN dec' = [dec EXCEPT !.pc = "done", !.result = r]
           ELSE dec' = [dec EXCEPT !.pc = "find"]
    /\ UNCHANGED <<crawlVars, engVars>>

\* text.find('{'), text.find('['), and the choice of the bracket type
DecFind ==
    /\ dec.pc = "find"
    /\ LET f == FirstOpen(dec.text)
       IN  IF f.start_pos = 0
           THEN dec' = [dec EXCEPT !.pc = "done", !.result = NoResult]
           ELSE dec' = [dec EXCEPT !.pc = "scan", !.start_pos = f.start_pos,
                                   !.open_char = f.open_char, !.close_char = f.close_char,
                                   !.i = f.start_pos]
    /\ UNCHANGED <<crawlVars, engVars>>

\* one iteration of the for loop, or its end (range exhausted, or break)
DecScan ==
    /\ dec.pc = "scan"
    /\ IF dec.i <= Len(dec.text) /\ dec.st.end_pos = 0
       THEN dec' = [dec EXCEPT !.st = ScanChar(dec.st, dec.text[dec.i], dec.i,
                                               dec.open_char, dec.close_char),
                               !.i = dec.i + 1]
       ELSE dec' = [dec EXCEPT !.pc = "finish"]
    /\ UNCHANGED <<crawlVars, engVars>>

\* if end_pos > start_pos: candidate = text[start_pos:end_pos + 1]; json.loads
DecFinish ==
    /\ dec.pc = "finish"
    /\ LET candidate == SubSeq(dec.text, dec.start_pos, dec.st.end_pos)
       IN  IF dec.st.end_pos > dec.start_pos /\ JsonLoads(candidate)
           THEN dec' = [dec EXCEPT !.pc = "done", !.result = Found(candidate)]
           ELSE dec' = [dec EXCEPT !.pc = "done", !.result = NoResult]
    /\ UNCHANGED <<crawlVars, engVars>>

DecNext ==
    \/ DecFence
    \/ DecFind
    \/ DecScan
    \/ DecFinish

SpecDecode == DecInit /\ [][DecNext]_vars

-----------------------------------------------------------------------------
(* The visited-set check on pairs of URLs: main() from the top of the page    *)
(* loop, with the body of the first page reduced to the link it yields        *)

UrlChars == {"a", "/", "?", "#"}

RECURSIVE Tails(_)
Tails(n) ==
    IF n = 0 THEN {<<>>}
    ELSE Tails(n - 1) \cup {t \o <<c>> : t \in Tails(n - 1), c \in UrlChars}

\* https://x.test/a?p=1#f and https://x.test/a/
ExampleUrls == { <<"x", "/", "a", "?", "p", "#", "f">>, <<"x", "/", "a", "/">> }

UrlSpace ==
    { b \o t : b \in {<<"x">>, <<"x", "/", "a">>}, t \in Tails(MaxTail) } \cup ExampleUrls

NormInit ==
    /\ backend = "browser"
    /\ site = "pair"
    /\ url \in UrlSpace
    /\ pc = "page_check"
    /\ all_pages = <<>>
    /\ visited_urls = {}
    /\ current_url = url
    /\ final_url = NoUrl
    /\ page_num = 0
    /\ strategy = "None"
    /\ elapsed = 0
    /\ round_num = 0
    /\ prev_content_count = 0
    /\ clicks = 0
    /\ extracted = 0
    /\ oracle_result = NoRequest
    /\ navigated = <<>>
    /\ nav_error = FALSE
    /\ output = <<>>
    /\ exit_code = -1
    /\ failure = "none"
    /\ twin = TwinIdle
    /\ dec = DecIdle
    /\ EngIdle

\* the first page is loaded and its next link, any URL, becomes current_url
FollowLink ==
    /\ pc = "navigate"
    /\ site = "pair"
    /\ page_num = 1
    /\ navigated' = Append(navigated, current_url)
    /\ \E next_url \in UrlSpace :
         current_url' = IF next_url # current_url THEN next_url ELSE NoUrl
    /\ pc' = "page_check"
    /\ UNCHANGED <<backend, site, url, all_pages, visited_urls, final_url, page_num,
                   strategy, elapsed, round_num, prev_content_count, clicks, extracted,
                   oracle_result, output, exit_code, failure, twin, dec, engVars,
                   nav_error>>

NormNext ==
    \/ PageLoop
    \/ FollowLink

SpecNormalize == NormInit /\ [][NormNext]_vars

-----------------------------------------------------------------------------
(* The two backends on one site. A site is a chain of up to TwinPages pages: *)
(* the number of records an extraction builds on each page, whether the page *)
(* has a next link, and how long the oracle takes for the strategy. The      *)
(* http main() runs first, then the browser main() on the same site, with    *)
(* loads that succeed without redirect, an oracle that returns a strategy    *)
(* and a loader that never clicks.                                           *)

TwinSites ==
    { [counts |-> c, has_next |-> n, oracle_time |-> t] :
        c \in [1..TwinPages -> 0..MaxCount],
        n \in [1..(TwinPages - 1) -> BOOLEAN],
        t \in OracleDurations([how |-> "returned", stdout |-> "S1"]) }

\* what a finished run leaves: how it ended, the pages stored, the document written
RunResult ==
    [pc |-> pc,
     pages |-> [i \in 1..Len(all_pages) |->
                  [url |-> all_pages[i].url, page_number |-> all_pages[i].page_number]],
     shape |-> IF output = <<>> THEN {} ELSE DOMAIN output[1]]

TwinInit ==
    /\ backend = "http"
    /\ site = "chain"
    /\ url = ChainUrl(0)
    /\ pc = "page_check"
    /\ all_pages = <<>>
    /\ visited_urls = {}
    /\ current_url = url
    /\ final_url = NoUrl
    /\ page_num = 0
    /\ strategy = "None"
    /\ elapsed = 0
    /\ round_num = 0
    /\ prev_content_count = 0
    /\ clicks = 0
    /\ extracted = 0
    /\ oracle_result = NoRequest
    /\ navigated = <<>>
    /\ nav_error = FALSE
    /\ output = <<>>
    /\ exit_code = -1
    /\ failure = "none"
    /\ dec = DecIdle
    /\ EngIdle
    /\ \E s \in TwinSites : twin = [phase |-> "first", site |-> s, first |-> <<>>]

\* the step taken is the one the site gives: its page loads, its oracle response,
\* its record counts and next links, and no click
OnSite ==
    /\ pc = "navigate" =>
          (nav_error' = FALSE /\ final_url' = current_url /\ elapsed' = elapsed)
    /\ pc = "strategy" =>
          /\ oracle_result' = [how |-> "returned", stdout |-> "S1"]
          /\ elapsed' = elapsed + twin.site.oracle_time
    /\ (pc = "round_check" /\ round_num' > round_num) =>
          (ldr' = LdrReturned(0, FALSE) /\ elapsed' = elapsed + Min(LoaderDurations))
    /\ pc = "extract" => extracted' = twin.site.counts[page_num]
    /\ pc = "paginate" =>
          current_url' = IF page_num < TwinPages /\ twin.site.has_next[page_num]
                         THEN ChainUrl(page_num) ELSE NoUrl

\* a step of the backend that is running
TwinStep ==
    /\ \/ PageLoop
       \/ Goto
       \/ Fetch
       \/ FirstStrategy
       \/ RoundLoop
       \/ ExtractBrowser
       \/ ExtractHttp
       \/ Paginate
       \/ WriteOutput
    /\ OnSite

\* the http run is over: keep what it left and start the browser run
TwinSwitch ==
    /\ twin.phase = "first"
    /\ pc \in {"done", "failed"}
    /\ twin' = [twin EXCEPT !.phase = "second", !.first = <<RunResult>>]
    /\ backend' = "browser"
    /\ pc' = "page_check"
    /\ all_pages' = <<>>
    /\ visited_urls' = {}
    /\ current_url' = url
    /\ final_url' = NoUrl
    /\ page_num' = 0
    /\ strategy' = "None"
    /\ elapsed' = 0
    /\ round_num' = 0
    /\ prev_content_count' = 0
    /\ clicks' = 0
    /\ extracted' = 0
    /\ oracle_result' = NoRequest
    /\ navigated' = <<>>
    /\ nav_error' = FALSE
    /\ output' = <<>>
    /\ exit_code' = -1
    /\ failure' = "none"
    /\ UNCHANGED <<site, url, dec, engVars>>

TwinNext ==
    \/ TwinStep
    \/ TwinSwitch

SpecTwin == TwinInit /\ [][TwinNext]_vars

(* Properties of the two backends *)

\* C23: on the same site, with the same oracle response and a loader that never
\* clicks, the browser run ends as the http run did (Done or Failed) and, when Done,
\* has stored pages with the same URLs and page numbers and written a document of
\* the same shape; the http run extracts each page once.
C23_BackendsAgree ==
    /\ [](twin.phase = "second" /\ pc \in {"done", "failed"} =>
            /\ pc = twin.first[1].pc
            /\ pc = "done" =>
                  /\ RunResult.pages = twin.first[1].pages
                  /\ RunResult.shape = twin.first[1].shape)
    /\ [][ (backend = "http" /\ pc = "extract") =>
             (pc' \in {"paginate", "build", "failed"} /\ round_num' = 0) ]_vars

\* the same for sites on which every page has at least one record and the oracle
\* answers at once
C23_AgreeOnFullSites ==
    (/\ twin.phase = "second" /\ pc \in {"done", "failed"}
     /\ \A k \in 1..TwinPages : twin.site.counts[k] >= 1
     /\ twin.site.oracle_time = Min(OracleDurations([how |-> "returned", stdout |-> "S1"])))
    => (pc = twin.first[1].pc /\ RunResult = twin.first[1])

\* both runs are over and each stored three pages
C23_Witness ==
    /\ twin.phase = "second" /\ pc = "done"
    /\ Len(all_pages) = 3 /\ Len(twin.first[1].pages) = 3

-----------------------------------------------------------------------------
(* The extraction engine: extract_with_strategy of both backends.            *)
(* A document is the sequence of its elements in document order; an element  *)
(* is [parent, tag, cls, text, ref]: the index of its parent (0: the         *)
(* document), its tag name, its class, the text directly inside it and its   *)
(* href or src. A selector is <<s>> (tag or class s) or <<a, s>> (tag or     *)
(* class s below an element of tag or class a); <<>> is no selector.         *)

(* The first token of an absolute URL is its scheme and host; "js:" and      *)
(* "data:" stand for the schemes javascript: and data:.                      *)

Hosts == {"x", "y"}

\* urlparse(u).netloc, "" when u has none
NetLoc(u) == IF u # <<>> /\ u[1] \in Hosts THEN u[1] ELSE ""

\* the URL up to and with the last "/" of its path
BaseDir(u) ==
    LET path == SplitFirst(SplitFirst(u, "#"), "?")
        at == {i \in 1..Len(path) : path[i] = "/"}
    IN  IF at = {} THEN path \o <<"/">> ELSE SubSeq(path, 1, Max(at))

\* urljoin(base, href)
UrlJoin(base, href) ==
    IF href = <<>> THEN base
    ELSE IF href[1] \in Hosts \/ href[1] \in {"js:", "data:"} THEN href
    ELSE IF href[1] = "/" THEN <<base[1]>> \o href
    ELSE IF href[1] = "?" THEN SplitFirst(SplitFirst(base, "#"), "?") \o href
    ELSE IF href[1] = "#" THEN SplitFirst(base, "#") \o href
    ELSE BaseDir(base) \o href

\* the URL the documents given to the engine are served under
PageUrl == <<"x", "/", "a">>

RECURSIVE AncOrSelf(_, _)
\* the element and its ancestors
AncOrSelf(dom, i) == IF i = 0 THEN {} ELSE {i} \cup AncOrSelf(dom, dom[i].parent)

Ancestors(dom, i) == AncOrSelf(dom, i) \ {i}

\* the elements below element i (below the document for i = 0)
Descendants(dom, i) == {j \in 1..Len(dom) : j # i /\ (i = 0 \/ i \in AncOrSelf(dom, j))}

Children(dom, i) == {j \in 1..Len(dom) : dom[j].parent = i}

MatchesSimple(n, s) == s # "" /\ (s = n.tag \/ s = n.cls)

\* element i matches the selector
Matches(dom, i, sel) ==
    /\ sel # <<>>
    /\ MatchesSimple(dom[i], sel[Len(sel)])
    /\ Len(sel) = 2 => \E a \in Ancestors(dom, i) : MatchesSimple(dom[a], sel[1])

\* the elements of a set, in document order
RECURSIVE InOrder(_)
InOrder(S) == IF S = {} THEN <<>> ELSE <<Min(S)>> \o InOrder(S \ {Min(S)})

\* query_selector_all / select under element i (the page for i = 0)
SelectAll(dom, i, sel) == InOrder({j \in Descendants(dom, i) : Matches(dom, j, sel)})

\* query_selector / select_one under element i: the first match, 0 when none
SelectOne(dom, i, sel) ==
    LET m == {j \in Descendants(dom, i) : Matches(dom, j, sel)}
    IN  IF m = {} THEN 0 ELSE Min(m)

RECURSIVE Concat(_, _)
\* the texts of the elements of a sequence of indices, joined
Concat(dom, ix) == IF ix = <<>> THEN <<>> ELSE dom[Head(ix)].text \o Concat(dom, Tail(ix))

\* inner_text() / get_text(strip=True), then .strip()
InnerText(dom, i) == Strip(Concat(dom, InOrder({i} \cup Descendants(dom, i))))

\* get_attribute(attribute) or ""
Attr(n, attribute) ==
    IF (attribute = "href" /\ n.tag = "a") \/ (attribute = "src" /\ n.tag = "img")
    THEN n.ref
    ELSE <<>>

RECURSIVE SameMarkup(_, _, _)
\* bs4 Tag.__eq__: same name, attributes and contents
SameMarkup(dom, i, j) ==
    /\ dom[i].tag = dom[j].tag /\ dom[i].cls = dom[j].cls /\ dom[i].ref = dom[j].ref
    /\ dom[i].text = dom[j].text
    /\ LET ci == InOrder(Children(dom, i))
           cj == InOrder(Children(dom, j))
       IN  /\ Len(ci) = Len(cj)
           /\ \A k \in 1..Len(ci) : SameMarkup(dom, ci[k], cj[k])

\* browser should_ignore: el.closest(sel) !== null for some selector
should_ignore_browser(dom, i, ignore) ==
    \E k \in 1..Len(ignore) : \E a \in AncOrSelf(dom, i) : Matches(dom, a, ignore[k])

\* http should_ignore: for the element and each ancestor, parent.name == selector,
\* or parent in parent.parent.select(selector) (list membership is by ==)
should_ignore_http(dom, i, ignore) ==
    \E k \in 1..Len(ignore) : \E a \in AncOrSelf(dom, i) :
        \/ (Len(ignore[k]) = 1 /\ dom[a].tag = ignore[k][1])
        \/ \E m \in Descendants(dom, dom[a].parent) :
              Matches(dom, m, ignore[k]) /\ (m = a \/ SameMarkup(dom, m, a))

\* variant: only the element itself is tested, not its ancestors
should_ignore_self(be, dom, i, ignore) ==
    \E k \in 1..Len(ignore) : Matches(dom, i, ignore[k])

should_ignore(be, dom, i, ignore) ==
    IF be = "browser" THEN should_ignore_browser(dom, i, ignore)
    ELSE should_ignore_http(dom, i, ignore)

\* one key of a content record: its name, its value and the elements read for it
Entry(name, value, from) == [name |-> name, value |-> value, from |-> from]

\* a content record: its keys, and the function that appended it
Rec(by, entries) == [by |-> by, entries |-> entries]

\* d[name] = value on a dict kept as a sequence of entries in insertion order
DictSet(d, e) ==
    IF \E k \in 1..Len(d) : d[k].name = e.name
    THEN [k \in 1..Len(d) |-> IF d[k].name = e.name THEN e ELSE d[k]]
    ELSE Append(d, e)

\* the value read from element el for a field: the attribute, or the stripped text
FieldValue(dom, el, f) ==
    IF f.attribute # "" THEN Attr(dom[el], f.attribute) ELSE InnerText(dom, el)

RECURSIVE ItemFields(_, _, _, _)
\* item_data after the first k fields, in extract_list_items: the element found
\* under the item is read whatever its ancestors are
ItemFields(dom, item, fields, k) ==
    IF k = 0 THEN <<>>
    ELSE LET d == ItemFields(dom, item, fields, k - 1)
             f == fields[k]
             el == SelectOne(dom, item, f.selector)
         IN  IF f.name = "" \/ f.selector = <<>> \/ el = 0 THEN d
             ELSE IF FieldValue(dom, el, f) = <<>> THEN d
             ELSE DictSet(d, Entry(f.name, FieldValue(dom, el, f), {el}))

\* variant: the full-text fallback without the length test
ItemRecord_anytext(dom, item, fields) ==
    LET item_data == ItemFields(dom, item, fields, Len(fields))
        text == InnerText(dom, item)
    IN  IF item_data # <<>> THEN item_data
        ELSE IF text # <<>> THEN <<Entry("text", text, {item})>>
        ELSE <<>>

\* item_data of one list item; <<>> when nothing is appended for it
ItemRecord(dom, item, fields) ==
    LET item_data == ItemFields(dom, item, fields, Len(fields))
        text == InnerText(dom, item)
    IN  IF item_data # <<>> THEN item_data
        ELSE IF text # <<>> /\ Len(text) >= 3 THEN <<Entry("text", text, {item})>>
        ELSE <<>>

RECURSIVE ListRecords(_, _, _, _)
\* data["content"] after the items of the sequence `items`
ListRecords(be, dom, st, items) ==
    IF items = <<>> THEN <<>>
    ELSE LET item == items[Len(items)]
             before == ListRecords(be, dom, st, SubSeq(items, 1, Len(items) - 1))
         IN  IF should_ignore(be, dom, item, st.ignore) THEN before
             ELSE IF ItemRecord(dom, item, st.fields) = <<>> THEN before
             ELSE Append(before, Rec("list", ItemRecord(dom, item, st.fields)))

extract_list_items(be, dom, st) == ListRecords(be, dom, st, SelectAll(dom, 0, st.items))

RECURSIVE GlobalFields(_, _, _, _)
\* content_item after the first k fields, in extract_fields_global
GlobalFields(be, dom, st, k) ==
    IF k = 0 THEN <<>>
    ELSE LET d == GlobalFields(be, dom, st, k - 1)
             f == st.fields[k]
             elements == SelectAll(dom, 0, f.selector)
             used == {j \in 1..Len(elements) :
                        /\ ~should_ignore(be, dom, elements[j], st.ignore)
                        /\ FieldValue(dom, elements[j], f) # <<>>}
             values == [j \in 1..Cardinality(used) |->
                          FieldValue(dom, elements[InOrder(used)[j]], f)]
         IN  IF f.name = "" \/ f.selector = <<>> \/ used = {} THEN d
             ELSE DictSet(d, Entry(f.name,
                                   IF Len(values) = 1 THEN values[1] ELSE values,
                                   {elements[j] : j \in used}))

extract_fields_global(be, dom, st) ==
    LET content_item == GlobalFields(be, dom, st, Len(st.fields))
    IN  IF content_item # <<>> THEN <<Rec("global", content_item)>> ELSE <<>>

RECURSIVE ContainerFields(_, _, _, _, _)
\* content_item after the first k fields, in extract_from_container
ContainerFields(be, dom, st, container, k) ==
    IF k = 0 THEN <<>>
    ELSE LET d == ContainerFields(be, dom, st, container, k - 1)
             f == st.fields[k]
             el == SelectOne(dom, container, f.selector)
         IN  IF f.name = "" \/ f.selector = <<>> \/ el = 0 THEN d
             ELSE IF should_ignore(be, dom, el, st.ignore) THEN d
             ELSE IF FieldValue(dom, el, f) = <<>> THEN d
             ELSE DictSet(d, Entry(f.name, FieldValue(dom, el, f), {el}))

\* variant: the text of the container is appended after the record of the fields
extract_from_container_both(be, dom, st) ==
    LET container == SelectOne(dom, 0, st.main_container)
        content_item == ContainerFields(be, dom, st, container, Len(st.fields))
        text == IF InnerText(dom, container) # <<>>
                THEN <<Rec("container", <<Entry("text", InnerText(dom, container), {container})>>)>>
                ELSE <<>>
    IN  IF container = 0 THEN extract_fields_global(be, dom, st)
        ELSE IF content_item # <<>> THEN <<Rec("container", content_item)>> \o text
        ELSE text

extract_from_container(be, dom, st) ==
    LET container == SelectOne(dom, 0, st.main_container)
        content_item == ContainerFields(be, dom, st, container, Len(st.fields))
    IN  IF container = 0 THEN extract_fields_global(be, dom, st)
        ELSE IF content_item # <<>> THEN <<Rec("container", content_item)>>
        ELSE IF InnerText(dom, container) # <<>>
             THEN <<Rec("container", <<Entry("text", InnerText(dom, container), {container})>>)>>
        ELSE <<>>

\* the string the src / href tests look at: the browser reads the property img.src /
\* a.href, which is the resolved URL; the http backend reads the attribute
TestedUrl(be, raw) == IF be = "browser" THEN UrlJoin(PageUrl, raw) ELSE raw

\* if (!src || src.startsWith('data:')) return;
\* if (!href || href.startsWith('#') || href.startsWith('javascript:')) return;
Rejected(tag, u) ==
    \/ u = <<>>
    \/ tag = "img" /\ u[1] = "data:"
    \/ tag = "a" /\ u[1] \in {"#", "js:"}

RECURSIVE MediaList(_, _, _, _, _)
\* imgs / links after the first k elements of the document: elements of the tag with
\* a src / href that are not ignored, pass the test, have (for links) a text, and
\* whose resolved URL was not seen before
MediaList(be, dom, ignore, tag, k) ==
    IF k = 0 THEN <<>>
    ELSE LET before == MediaList(be, dom, ignore, tag, k - 1)
             n == dom[k]
             resolved == UrlJoin(PageUrl, n.ref)
         IN  IF n.tag # tag \/ n.ref = <<>> THEN before
             ELSE IF should_ignore(be, dom, k, ignore) THEN before
             ELSE IF Rejected(tag, TestedUrl(be, n.ref)) THEN before
             ELSE IF tag = "a" /\ InnerText(dom, k) = <<>> THEN before
             ELSE IF \E j \in 1..Len(before) : before[j].ref = resolved THEN before
             ELSE Append(before, [ref |-> resolved, from |-> k])

extract_images(be, dom, st) == MediaList(be, dom, st.ignore, "img", Len(dom))

extract_links(be, dom, st) == MediaList(be, dom, st.ignore, "a", Len(dom))

\* variant: a list that yields no record falls through to the other branches
MainContent_fallthrough(be, dom, st) ==
    IF st.items # <<>> /\ extract_list_items(be, dom, st) # <<>>
    THEN extract_list_items(be, dom, st)
    ELSE IF st.main_container # <<>> THEN extract_from_container(be, dom, st)
    ELSE extract_fields_global(be, dom, st)

\* if items_selector: ... elif main_container: ... else: ...
MainContent(be, dom, st) ==
    IF st.items # <<>> THEN extract_list_items(be, dom, st)
    ELSE IF st.main_container # <<>> THEN extract_from_container(be, dom, st)
    ELSE extract_fields_global(be, dom, st)

\* variant: an extraction without images and links is a failure too
ContentNotFound_strict(data) ==
    Len(data.content) = 0 \/ Len(data.images) = 0 \/ Len(data.links) = 0

\* if content_count == 0: raise RuntimeError
ContentNotFound(data) == Len(data.content) = 0

(* Inputs of the extraction engine *)

T3 == <<"a", "b", "c">>
T2 == <<"a", "b">>

\* the elements a document is built from, without their place in the tree
NodeTypes ==
    { [tag |-> "div", cls |-> "item", text |-> T3, ref |-> <<>>],
      [tag |-> "div", cls |-> "item", text |-> <<>>, ref |-> <<>>],
      [tag |-> "div", cls |-> "ign", text |-> T2, ref |-> <<>>],
      [tag |-> "div", cls |-> "fld", text |-> T3, ref |-> <<>>],
      [tag |-> "div", cls |-> "box", text |-> <<>>, ref |-> <<>>],
      [tag |-> "a", cls |-> "", text |-> T3, ref |-> <<"h1">>],
      [tag |-> "img", cls |-> "", text |-> <<>>, ref |-> <<"s1">>] }

\* the elements that hold other elements
CanHold(n) == n.cls \in {"item", "ign", "box"}

\* where the next element of a document can go: under the document, or under the
\* last element or one of its ancestors
OpenParents(d) ==
    {0} \cup (IF d = <<>> THEN {} ELSE {a \in AncOrSelf(d, Len(d)) : CanHold(d[a])})

RECURSIVE DomsOfLen(_)
DomsOfLen(k) ==
    IF k = 0 THEN {<<>>}
    ELSE UNION { { Append(d, [parent |-> p, tag |-> t.tag, cls |-> t.cls,
                              text |-> t.text, ref |-> t.ref]) :
                     t \in NodeTypes, p \in OpenParents(d) } :
                 d \in DomsOfLen(k - 1) }

Doms == UNION { DomsOfLen(k) : k \in 0..MaxNodes }

TitleField == [name |-> "title", selector |-> <<"fld">>, attribute |-> ""]
LinkField == [name |-> "link", selector |-> <<"a">>, attribute |-> "href"]

\* the parts of a strategy the engine reads: content_selectors.items,
\* content_selectors.main_container, extraction_fields, ignore_selectors
ExtStrategies ==
    { [items |-> <<"item">>, main_container |-> <<>>, fields |-> <<TitleField>>,
       ignore |-> << <<"ign">> >>],
      [items |-> <<"item">>, main_container |-> <<"box">>,
       fields |-> <<TitleField, LinkField>>, ignore |-> <<>>],
      [items |-> <<"item">>, main_container |-> <<>>, fields |-> <<>>,
       ignore |-> << <<"ign", "item">> >>],
      [items |-> <<>>, main_container |-> <<"box">>, fields |-> <<TitleField>>,
       ignore |-> << <<"ign">> >>],
      [items |-> <<>>, main_container |-> <<"box">>, fields |-> <<>>, ignore |-> <<>>],
      [items |-> <<>>, main_container |-> <<>>, fields |-> <<TitleField>>,
       ignore |-> << <<"ign">> >>],
      [items |-> <<>>, main_container |-> <<>>, fields |-> <<LinkField>>, ignore |-> <<>>],
      [items |-> <<>>, main_container |-> <<>>, fields |-> <<>>, ignore |-> <<>>] }

(* extract_with_strategy as a state machine: ext.pc walks main, media, check, *)
(* then returned or raised                                                   *)

\* data as extract_with_strategy creates it; the documents hold no meta and no
\* ld+json elements, so metadata and structured_data stay as created
NoData == [metadata |-> <<>>, structured_data |-> "None", content |-> <<>>,
           images |-> <<>>, links |-> <<>>]

ExtInit ==
    /\ backend \in {"browser", "http"}
    /\ CrawlIdle
    /\ dec = DecIdle
    /\ ldr = LdrIdle
    /\ pag = PagIdle
    /\ \E d \in Doms, st \in ExtStrategies :
         ext = [pc |-> "main", dom |-> d, st |-> st, data |-> NoData]

\* the main-content branch
ExtMain ==
    /\ ext.pc = "main"
    /\ ext' = [ext EXCEPT !.pc = "media",
                          !.data.content = MainContent(backend, ext.dom, ext.st)]
    /\ UNCHANGED <<crawlVars, dec, ldr, pag>>

\* extract_images, extract_links
ExtMedia ==
    /\ ext.pc = "media"
    /\ ext' = [ext EXCEPT !.pc = "check",
                          !.data.images = extract_images(backend, ext.dom, ext.st),
                          !.data.links = extract_links(backend, ext.dom, ext.st)]
    /\ UNCHANGED <<crawlVars, dec, ldr, pag>>

\* content_count = len(data["content"]); raise RuntimeError or return data
ExtFinish ==
    /\ ext.pc = "check"
    /\ ext' = [ext EXCEPT !.pc = IF ContentNotFound(ext.data) THEN "raised" ELSE "returned"]
    /\ UNCHANGED <<crawlVars, dec, ldr, pag>>

ExtNext ==
    \/ ExtMain
    \/ ExtMedia
    \/ ExtFinish

SpecExtract == ExtInit /\ [][ExtNext]_vars

(* The engine on documents of anchors and images *)

\* anchors with a fragment-only, script, site-relative, absolute and relative href,
\* with and without text; images with a data URI, a site-relative and a relative src
MediaTypes ==
    { [tag |-> "a", cls |-> "", text |-> t, ref |-> h] :
        t \in {T3, <<>>},
        h \in { <<"#", "f">>, <<"js:", "v">>, <<"/", "b">>, <<"x", "/", "b">>, <<"b">> } }
    \cup
    { [tag |-> "img", cls |-> "", text |-> <<>>, ref |-> r] :
        r \in { <<"data:", "i">>, <<"/", "s">>, <<"s">> } }

RECURSIVE MediaDomsOfLen(_)
MediaDomsOfLen(k) ==
    IF k = 0 THEN {<<>>}
    ELSE { Append(d, [parent |-> 0, tag |-> t.tag, cls |-> t.cls,
                      text |-> t.text, ref |-> t.ref]) :
             d \in MediaDomsOfLen(k - 1), t \in MediaTypes }

MediaDoms == UNION { MediaDomsOfLen(k) : k \in 0..MaxNodes }

MediaInit ==
    /\ backend \in {"browser", "http"}
    /\ CrawlIdle
    /\ dec = DecIdle
    /\ ldr = LdrIdle
    /\ pag = PagIdle
    /\ \E d \in MediaDoms :
         ext = [pc |-> "main", dom |-> d,
                st |-> [items |-> <<>>, main_container |-> <<>>,
                        fields |-> <<LinkField>>, ignore |-> <<>>],
                data |-> NoData]

SpecMedia == MediaInit /\ [][ExtNext]_vars

-----------------------------------------------------------------------------
(* Properties of the extraction engine *)

\* C13: the engine raises content-not-found exactly when the main-content branch
\* left content empty, and returns the data unchanged otherwise, whatever metadata,
\* structured data, images and links hold; returned data has at least one record.
C13_ContentNotFoundIffEmpty ==
    /\ [][ ext.pc = "check" =>
             /\ ext'.pc \in {"raised", "returned"}
             /\ (ext'.pc = "raised" <=> Len(ext.data.content) = 0)
             /\ ext'.data = ext.data ]_vars
    /\ [](ext.pc = "returned" => Len(ext.data.content) >= 1)

\* data with content but without metadata, structured data, images and links was
\* returned
C13_Witness ==
    /\ ext.pc = "returned"
    /\ ext.data.metadata = <<>> /\ ext.data.structured_data = "None"
    /\ ext.data.images = <<>> /\ ext.data.links = <<>>

\* element i matches an ignore selector or has an ancestor, at any depth, that does
UnderIgnored(dom, i, ignore) ==
    \E a \in AncOrSelf(dom, i) : \E k \in 1..Len(ignore) : Matches(dom, a, ignore[k])

\* the elements the values of the content records were read from
ContentSources(data) ==
    UNION { UNION { data.content[r].entries[e].from :
                      e \in 1..Len(data.content[r].entries) } :
            r \in 1..Len(data.content) }

\* C14: nothing in content, images or links was read from an element that matches
\* an ignore selector or lies below one that does.
C14_IgnoreUniform ==
    /\ \A i \in ContentSources(ext.data) : ~UnderIgnored(ext.dom, i, ext.st.ignore)
    /\ \A k \in 1..Len(ext.data.images) :
          ~UnderIgnored(ext.dom, ext.data.images[k].from, ext.st.ignore)
    /\ \A k \in 1..Len(ext.data.links) :
          ~UnderIgnored(ext.dom, ext.data.links[k].from, ext.st.ignore)

\* the branch the strategy and the document select
SelectedBranch(dom, st) ==
    IF st.items # <<>> THEN "list"
    ELSE IF st.main_container # <<>> /\ SelectOne(dom, 0, st.main_container) # 0
         THEN "container"
    ELSE "global"

\* C18: once the main-content step has run, every content record was appended by the
\* one selected branch and content is exactly what that branch produces: the list
\* branch when items is set, even when it yields nothing; else the container branch
\* when main_container is set and its element exists; else the whole-document branch.
C18_OneBranch ==
    ext.pc \in {"media", "check", "returned", "raised"} =>
        LET branch == SelectedBranch(ext.dom, ext.st)
            content == ext.data.content
        IN  /\ \A r \in 1..Len(content) : content[r].by = branch
            /\ branch = "list" =>
                  content = extract_list_items(backend, ext.dom, ext.st)
            /\ branch = "container" =>
                  /\ content = extract_from_container(backend, ext.dom, ext.st)
                  /\ Len(content) <= 1
            /\ branch = "global" =>
                  content = extract_fields_global(backend, ext.dom, ext.st)

\* items is set and the list yields no record, while the container branch would
\* have produced one: content stays empty
C18_Witness ==
    /\ ext.pc = "media"
    /\ ext.st.items # <<>> /\ ext.st.main_container # <<>>
    /\ ext.data.content = <<>>
    /\ extract_from_container(backend, ext.dom, ext.st) # <<>>

\* main_container is set, its element is not in the document, and the
\* whole-document branch produced the record
C18_WitnessNoContainer ==
    /\ ext.pc = "media"
    /\ ext.st.items = <<>> /\ ext.st.main_container # <<>>
    /\ SelectOne(ext.dom, 0, ext.st.main_container) = 0
    /\ Len(ext.data.content) = 1 /\ ext.data.content[1].by = "global"

\* some extraction field yields a value for the list item
HasFieldValue(dom, item, fields) ==
    \E k \in 1..Len(fields) :
        /\ fields[k].name # "" /\ fields[k].selector # <<>>
        /\ SelectOne(dom, item, fields[k].selector) # 0
        /\ FieldValue(dom, SelectOne(dom, item, fields[k].selector), fields[k]) # <<>>

\* the elements matched by the items selector that are not ignore-excluded and
\* contribute a record, in document order
Contributing(dom, st) ==
    LET Contributes(i) ==
            /\ ~UnderIgnored(dom, i, st.ignore)
            /\ HasFieldValue(dom, i, st.fields) \/ Len(InnerText(dom, i)) >= 3
    IN  SelectSeq(SelectAll(dom, 0, st.items), Contributes)

\* the list branch ran and content is as C19 states for the elements of `among`
ListContentIs(among) ==
    LET dom == ext.dom
        st == ext.st
        content == ext.data.content
    IN  /\ Len(content) = Len(among)
        /\ \A r \in 1..Len(content) :
              IF HasFieldValue(dom, among[r], st.fields)
              THEN \A e \in 1..Len(content[r].entries) :
                      /\ content[r].entries[e].name # "text"
                      /\ content[r].entries[e].from \subseteq Descendants(dom, among[r])
              ELSE content[r].entries =
                      <<Entry("text", InnerText(dom, among[r]), {among[r]})>>

\* C19: after the list branch, content holds one record for each element matched by
\* the items selector that is neither ignore-excluded nor without a value, in
\* document order and nothing else: the record of its field values, or {text: full
\* text} when no field yields a value and the text has at least 3 characters.
C19_ListRecords ==
    (ext.pc \in {"media", "check", "returned", "raised"} /\ ext.st.items # <<>>)
        => ListContentIs(Contributing(ext.dom, ext.st))

\* the same for the browser backend alone
C19_ListRecordsBrowser == backend = "browser" => C19_ListRecords

\* the list branch ran over two matching elements of which one is ignore-excluded
C19_Witness ==
    /\ ext.pc = "media" /\ ext.st.items # <<>>
    /\ Len(SelectAll(ext.dom, 0, ext.st.items)) = 2
    /\ Len(Contributing(ext.dom, ext.st)) = 1
    /\ \E i \in 1..Len(ext.dom) :
          Matches(ext.dom, i, ext.st.items) /\ UnderIgnored(ext.dom, i, ext.st.ignore)

\* C25: once images and links are extracted, no two images have the same resolved
\* src and no two links the same resolved href; no image has a data-URI src; every
\* link has a text, and neither the href it was read from nor the href stored is
\* fragment-only or a script pseudo-URL.
C25_MediaLists ==
    ext.pc \in {"check", "returned", "raised"} =>
        LET images == ext.data.images
            links == ext.data.links
        IN  /\ \A i \in 1..Len(images), j \in 1..Len(images) :
                  i # j => images[i].ref # images[j].ref
            /\ \A i \in 1..Len(links), j \in 1..Len(links) :
                  i # j => links[i].ref # links[j].ref
            /\ \A i \in 1..Len(images) :
                  /\ images[i].ref = UrlJoin(PageUrl, ext.dom[images[i].from].ref)
                  /\ images[i].ref[1] # "data:"
            /\ \A i \in 1..Len(links) :
                  /\ links[i].ref = UrlJoin(PageUrl, ext.dom[links[i].from].ref)
                  /\ InnerText(ext.dom, links[i].from) # <<>>
                  /\ links[i].ref[1] \notin {"#", "js:"}
                  /\ ext.dom[links[i].from].ref[1] \notin {"#", "js:"}

\* the same for the http backend alone
C25_MediaListsHttp == backend = "http" => C25_MediaLists

\* three anchors that resolve to one URL gave one link
C25_Witness ==
    /\ ext.pc = "returned"
    /\ Len(ext.dom) = 3 /\ Len(ext.data.links) = 1
    /\ \A k \in 1..3 : UrlJoin(PageUrl, ext.dom[k].ref) = ext.data.links[1].ref

\* the elements of a sequence
Range(q) == {q[i] : i \in 1..Len(q)}

\* the usable fields of a strategy: those with a name and a selector
Usable(st) == {k \in 1..Len(st.fields) : st.fields[k].name # "" /\ st.fields[k].selector # <<>>}

\* the values field f matches in the whole document, in document order: those of
\* the selected elements that are not ignored and give a non-empty value
MatchingValues(be, dom, st, f) ==
    LET Gives(j) == /\ ~should_ignore(be, dom, j, st.ignore)
                    /\ FieldValue(dom, j, f) # <<>>
        els == SelectSeq(SelectAll(dom, 0, f.selector), Gives)
    IN  [j \in 1..Len(els) |-> FieldValue(dom, els[j], f)]

\* the value field f gives inside the container: that of its first match, <<>> when
\* there is none or it is ignored
ValueInContainer(be, dom, st, container, f) ==
    LET el == SelectOne(dom, container, f.selector)
    IN  IF el = 0 \/ should_ignore(be, dom, el, st.ignore) THEN <<>>
        ELSE FieldValue(dom, el, f)

\* C29: under a strategy without an items selector the main-content step leaves at
\* most one content record. Container found: one record of the fields that give a
\* value, else one text record with the container's text when it is not empty, else
\* nothing. Whole document: one record when some field matches, holding the value
\* itself for a field with one matching value and the sequence of values for a
\* field with several. A count of at most 1 never exceeds the count of a stored
\* round 1, so no later round replaces the record.
C29_SingleRecord ==
    (ext.pc \in {"media", "check", "returned", "raised"} /\ ext.st.items = <<>>) =>
        LET dom == ext.dom
            st == ext.st
            content == ext.data.content
            container == SelectOne(dom, 0, st.main_container)
            InBox(k) == ValueInContainer(backend, dom, st, container, st.fields[k])
            InDoc(k) == MatchingValues(backend, dom, st, st.fields[k])
        IN  /\ Len(content) <= 1
            /\ \A prev \in 1..MaxCount : ~GrewContent(Len(content), prev)
            /\ SelectedBranch(dom, st) = "container" =>
                  IF \E k \in Usable(st) : InBox(k) # <<>>
                  THEN /\ Len(content) = 1
                       /\ {e.name : e \in Range(content[1].entries)} =
                             {st.fields[k].name : k \in {j \in Usable(st) : InBox(j) # <<>>}}
                       /\ \A e \in Range(content[1].entries) :
                             \E k \in Usable(st) : e.name = st.fields[k].name /\ e.value = InBox(k)
                  ELSE IF InnerText(dom, container) # <<>>
                  THEN /\ Len(content) = 1
                       /\ Len(content[1].entries) = 1
                       /\ content[1].entries[1].name = "text"
                       /\ content[1].entries[1].value = InnerText(dom, container)
                  ELSE content = <<>>
            /\ SelectedBranch(dom, st) = "global" =>
                  /\ Len(content) = 1 <=> (\E k \in Usable(st) : InDoc(k) # <<>>)
                  /\ Len(content) = 1 =>
                        /\ {e.name : e \in Range(content[1].entries)} =
                              {st.fields[k].name : k \in {j \in Usable(st) : InDoc(j) # <<>>}}
                        /\ \A e \in Range(content[1].entries) :
                              \E k \in Usable(st) :
                                 /\ e.name = st.fields[k].name
                                 /\ Len(InDoc(k)) = 1 => e.value = InDoc(k)[1]
                                 /\ Len(InDoc(k)) > 1 => e.value = InDoc(k)

\* the whole-document branch stored one record whose field has two values
C29_Witness ==
    /\ ext.pc = "returned" /\ ext.st.items = <<>> /\ ext.st.main_container = <<>>
    /\ Len(ext.data.content) = 1
    /\ \E e \in Range(ext.data.content[1].entries) :
          /\ Len(MatchingValues(backend, ext.dom, ext.st, ext.st.fields[1])) = 2
          /\ e.value = MatchingValues(backend, ext.dom, ext.st, ext.st.fields[1])

\* the container branch stored the text record of a container whose field gave nothing
C29_WitnessContainer ==
    /\ ext.pc = "returned" /\ ext.st.items = <<>>
    /\ SelectedBranch(ext.dom, ext.st) = "container"
    /\ ext.st.fields # <<>>
    /\ Len(ext.data.content) = 1
    /\ ext.data.content[1].entries[1].name = "text"

\* every PageResult main() stores holds at least one content record
StoredPagesHaveContent == \A i \in 1..Len(all_pages) : all_pages[i].content >= 1

-----------------------------------------------------------------------------
(* The click protocol: _try_click, and what click_load_more_buttons does     *)
(* with its result. What each Page Driver call does is input: it succeeds    *)
(* ("ok"), is blocked by an element that intercepts pointer events, times    *)
(* out, or fails in another way.                                             *)

DriverOutcomes == {"ok", "intercept", "timeout", "other"}

\* variant: every failure of the first attempt leads to the retries
Blocked_any(err) == err # "ok"

\* "intercepts pointer events" in err_msg or "Timeout" in err_msg
Blocked(err) == err \in {"intercept", "timeout"}

\* the outcome of the first try block: el.scroll_into_view_if_needed(), el.click()
FirstAttempt(o) == IF o.scroll # "ok" THEN o.scroll ELSE o.click

ClkInit ==
    /\ CrawlOff
    /\ dec = DecIdle
    /\ ext = ExtIdle
    /\ pag = PagIdle
    /\ \E sc \in DriverOutcomes, c1 \in DriverOutcomes,
          c2 \in DriverOutcomes, c3 \in DriverOutcomes, n \in 0..1 :
         ldr = [pc |-> "try_click",
                o |-> [scroll |-> sc, click |-> c1, retry |-> c2, force |-> c3],
                calls |-> <<>>, total_clicks |-> n, clicked |-> FALSE]

\* el.scroll_into_view_if_needed(); el.click(timeout=3000); the except clause
TryFirst ==
    /\ ldr.pc = "try_click"
    /\ ldr' = [ldr EXCEPT
                 !.calls = IF ldr.o.scroll # "ok" THEN <<"scroll">>
                           ELSE <<"scroll", "click">>,
                 !.pc = IF FirstAttempt(ldr.o) = "ok" THEN "try_true"
                        ELSE IF Blocked(FirstAttempt(ldr.o)) THEN "try_blocked"
                        ELSE "try_raise"]
    /\ UNCHANGED <<crawlVars, dec, ext, pag>>

\* _dismiss_overlays(page); el.click(timeout=3000)
TryRetry ==
    /\ ldr.pc = "try_blocked"
    /\ ldr' = [ldr EXCEPT
                 !.calls = ldr.calls \o <<"dismiss", "click">>,
                 !.pc = IF ldr.o.retry = "ok" THEN "try_true" ELSE "try_force"]
    /\ UNCHANGED <<crawlVars, dec, ext, pag>>

\* el.click(force=True, timeout=3000)
TryForce ==
    /\ ldr.pc = "try_force"
    /\ ldr' = [ldr EXCEPT
                 !.calls = Append(ldr.calls, "force"),
                 !.pc = IF ldr.o.force = "ok" THEN "try_true" ELSE "try_false"]
    /\ UNCHANGED <<crawlVars, dec, ext, pag>>

\* the caller: if _try_click(...): total_clicks += 1; clicked = True; an exception
\* is logged and the loop goes on with the next element
AfterTry ==
    /\ ldr.pc \in {"try_true", "try_false", "try_raise"}
    /\ ldr' = [ldr EXCEPT
                 !.pc = "in_loader",
                 !.clicked = (ldr.pc = "try_true"),
                 !.total_clicks = IF ldr.pc = "try_true" THEN ldr.total_clicks + 1
                                  ELSE ldr.total_clicks]
    /\ UNCHANGED <<crawlVars, dec, ext, pag>>

ClkNext ==
    \/ TryFirst
    \/ TryRetry
    \/ TryForce
    \/ AfterTry

SpecClick == ClkInit /\ [][ClkNext]_vars

(* Properties of the click protocol *)

\* the calls made so far that are click attempts
ClickAttempts(calls) == SelectSeq(calls, LAMBDA c : c \in {"click", "force"})

\* C21: the calls for one element are, in this order, the first attempt (scroll into
\* view and plain click), then only if it was blocked or timed out the overlay
\* dismissal, one plain retry and one forced click; the forced click comes only after
\* the first attempt and the retry failed; there are at most three click attempts;
\* whatever fails, control stays in the loader and only a successful click is counted.
C21_ClickProtocol ==
    /\ [](ldr.pc \in {"try_true", "try_blocked", "try_force", "try_false", "try_raise",
                      "in_loader"} =>
            LET calls == ldr.calls
                o == ldr.o
            IN  /\ Len(ClickAttempts(calls)) <= 3
                /\ calls \in { <<"scroll">>, <<"scroll", "click">>,
                               <<"scroll", "dismiss", "click">>,
                               <<"scroll", "click", "dismiss", "click">>,
                               <<"scroll", "dismiss", "click", "force">>,
                               <<"scroll", "click", "dismiss", "click", "force">> }
                /\ (\E k \in 1..Len(calls) : calls[k] = "dismiss") =>
                      FirstAttempt(o) \in {"intercept", "timeout"}
                /\ (\E k \in 1..Len(calls) : calls[k] = "force") =>
                      (FirstAttempt(o) # "ok" /\ o.retry # "ok")
                /\ (FirstAttempt(o) \in {"intercept", "timeout"} /\ ldr.pc = "in_loader") =>
                      (\E k \in 1..Len(calls) : calls[k] = "dismiss"))
    /\ [][ ldr.pc \in {"try_true", "try_false", "try_raise"} =>
             /\ ldr'.pc = "in_loader"
             /\ ldr'.clicked = (ldr.pc = "try_true")
             /\ ldr'.total_clicks = ldr.total_clicks + (IF ldr.pc = "try_true" THEN 1 ELSE 0)
         ]_vars
    /\ [](ldr.pc = "in_loader" =>
            (ldr.clicked <=> \/ FirstAttempt(ldr.o) = "ok"
                             \/ /\ FirstAttempt(ldr.o) \in {"intercept", "timeout"}
                                /\ (ldr.o.retry = "ok" \/ ldr.o.force = "ok")))

\* the plain click was intercepted, the retry and the forced click failed too, and
\* the loader goes on with no click counted
C21_Witness ==
    /\ ldr.pc = "in_loader"
    /\ ldr.calls = <<"scroll", "click", "dismiss", "click", "force">>
    /\ ~ldr.clicked /\ ldr.total_clicks = 0

-----------------------------------------------------------------------------
(* The dynamic content loader: click_load_more_buttons. An iteration of its  *)
(* for loop measures the height, runs the text-pattern stage, the selector   *)
(* stage and the scroll, and measures the height again. What the page does   *)
(* is input: the result of _try_click for each candidate element of a stage, *)
(* whether a Page Driver call outside a try block raises, and whether the    *)
(* height is the same afterwards.                                            *)

\* max_clicks: int = 10
max_clicks == 10

\* if consecutive_no_change >= 3
no_change_limit == 3

\* variant: a click without a height change counts as no change
NoChange_height(clicked, same_height) == same_height

\* new_height == current_height and not clicked
NoChange(clicked, same_height) == same_height /\ ~clicked

\* the last three of the iterations so far
LastThree(recent, it) ==
    IF Len(recent) < 3 THEN Append(recent, it) ELSE Append(Tail(recent), it)

\* what _try_click does for one candidate element: True, False, or an exception
\* that the except clause around the call logs
TryResults == {"true", "false", "raise"}

\* the candidates of one stage, in the order the stage meets them
StageInputs ==
    {<<>>} \cup {<<r>> : r \in TryResults}
           \cup {<<r1, r2>> : r1 \in TryResults, r2 \in TryResults}

\* the candidates a stage tries: it leaves its loops at the first click that succeeds
Tried(cands) ==
    IF \E k \in 1..Len(cands) : cands[k] = "true"
    THEN SubSeq(cands, 1, Min({k \in 1..Len(cands) : cands[k] = "true"}))
    ELSE cands

\* the steps of a stage, for the record of the iteration
StageSteps(stage, cands) == [k \in 1..Len(Tried(cands)) |-> <<stage, Tried(cands)[k]>>]

StageClicked(cands) == \E k \in 1..Len(cands) : cands[k] = "true"

\* variant: the selector stage and the scroll run after a click too
AfterClick_goon(clicked) == "css"

\* if not clicked: (selector stage, scroll)
AfterClick(clicked) == IF clicked THEN "measure" ELSE "css"

LdrInit ==
    /\ CrawlOff
    /\ dec = DecIdle
    /\ ext = ExtIdle
    /\ pag = PagIdle
    /\ ldr = [pc |-> "loop", iteration |-> 0, total_clicks |-> 0,
              consecutive_no_change |-> 0, height_changed |-> FALSE, recent |-> <<>>,
              clicked |-> FALSE, steps |-> <<>>]

\* for _ in range(max_clicks): current_height = page.evaluate(...); clicked = False
LdrMeasure ==
    /\ ldr.pc = "loop"
    /\ ldr.iteration < max_clicks
    /\ \E raised \in BOOLEAN :
         ldr' = [ldr EXCEPT !.pc = IF raised THEN "raised" ELSE "text",
                            !.clicked = FALSE,
                            !.steps = <<>>]
    /\ UNCHANGED <<crawlVars, dec, ext, pag>>

\* 1. the buttons whose text matches a pattern
LdrTextStage ==
    /\ ldr.pc = "text"
    /\ \E cands \in StageInputs :
         ldr' = [ldr EXCEPT
                   !.pc = AfterClick(StageClicked(cands)),
                   !.clicked = StageClicked(cands),
                   !.total_clicks = ldr.total_clicks + (IF StageClicked(cands) THEN 1 ELSE 0),
                   !.steps = ldr.steps \o StageSteps("text", cands)]
    /\ UNCHANGED <<crawlVars, dec, ext, pag>>

\* 2. if not clicked: the elements found by the selectors
LdrCssStage ==
    /\ ldr.pc = "css"
    /\ \E cands \in StageInputs :
         ldr' = [ldr EXCEPT
                   !.pc = IF AfterClick(ldr.clicked \/ StageClicked(cands)) = "measure"
                          THEN "measure" ELSE "scroll",
                   !.clicked = ldr.clicked \/ StageClicked(cands),
                   !.total_clicks = ldr.total_clicks + (IF StageClicked(cands) THEN 1 ELSE 0),
                   !.steps = ldr.steps \o StageSteps("css", cands)]
    /\ UNCHANGED <<crawlVars, dec, ext, pag>>

\* 3. if not clicked: page.evaluate("window.scrollTo(...)"); page.wait_for_timeout
LdrScroll ==
    /\ ldr.pc = "scroll"
    /\ \E raised \in BOOLEAN :
         ldr' = [ldr EXCEPT !.pc = IF raised THEN "raised" ELSE "measure",
                            !.steps = Append(ldr.steps, <<"scroll", "done">>)]
    /\ UNCHANGED <<crawlVars, dec, ext, pag>>

\* new_height = page.evaluate(...); the consecutive_no_change test
LdrCompare ==
    /\ ldr.pc = "measure"
    /\ \E raised \in BOOLEAN, same_height \in BOOLEAN :
         LET count == IF NoChange(ldr.clicked, same_height)
                      THEN ldr.consecutive_no_change + 1 ELSE 0
         IN  IF raised
             THEN ldr' = [ldr EXCEPT !.pc = "raised"]
             ELSE ldr' = [ldr EXCEPT
                            !.pc = IF NoChange(ldr.clicked, same_height)
                                      /\ count >= no_change_limit
                                   THEN "break" ELSE "loop",
                            !.iteration = ldr.iteration + 1,
                            !.consecutive_no_change = count,
                            !.height_changed = ldr.height_changed \/ ~same_height,
                            !.recent = LastThree(ldr.recent,
                                                 [clicked |-> ldr.clicked,
                                                  same_height |-> same_height])]
    /\ UNCHANGED <<crawlVars, dec, ext, pag>>

\* return total_clicks, after the break or after the last iteration
LdrReturn ==
    /\ \/ ldr.pc = "break"
       \/ ldr.pc = "loop" /\ ldr.iteration >= max_clicks
    /\ ldr' = [ldr EXCEPT !.pc = "returned"]
    /\ UNCHANGED <<crawlVars, dec, ext, pag>>

LdrNext ==
    \/ LdrMeasure
    \/ LdrTextStage
    \/ LdrCssStage
    \/ LdrScroll
    \/ LdrCompare
    \/ LdrReturn

SpecLoader == LdrInit /\ [][LdrNext]_vars

(* Properties of the loader *)

\* the iteration had neither a successful click nor a height change
Quiet(it) == ~it.clicked /\ it.same_height

\* the last three iterations exist and all were quiet
ThreeQuiet(l) == Len(l.recent) = 3 /\ \A k \in 1..3 : Quiet(l.recent[k])

\* the number of quiet iterations at the end of the last three
RECURSIVE QuietRun(_)
QuietRun(recent) ==
    IF recent = <<>> \/ ~Quiet(recent[Len(recent)]) THEN 0
    ELSE 1 + QuietRun(SubSeq(recent, 1, Len(recent) - 1))

\* C20: the loader runs at most 10 iterations; it goes on after an iteration exactly
\* when fewer than 10 have run and the last three were not all quiet, so it stops at
\* the first iteration that completes 3 consecutive quiet ones or at the cap; an
\* iteration with a click or a height change sets the consecutive count to zero.
C20_LoaderStopRule ==
    /\ [](ldr.pc # "raised" =>
            /\ ldr.iteration <= 10
            /\ ldr.pc \notin {"break", "returned"} => ~ThreeQuiet(ldr)
            /\ ldr.pc \in {"text", "css", "scroll", "measure"} => ldr.iteration < 10
            /\ ldr.pc = "break" => ThreeQuiet(ldr)
            /\ ldr.pc = "returned" => (ThreeQuiet(ldr) \/ ldr.iteration = 10)
            /\ ldr.consecutive_no_change = QuietRun(ldr.recent))
    /\ [][ (ldr.pc = "loop" /\ ldr.iteration < 10) => ldr'.pc \in {"text", "raised"} ]_vars
    /\ [][ (ldr.pc = "measure" /\ ldr'.pc # "raised") =>
             /\ ldr'.iteration = ldr.iteration + 1
             /\ ldr'.pc = IF ThreeQuiet(ldr') THEN "break" ELSE "loop"
             /\ ldr'.recent[Len(ldr'.recent)].clicked = ldr.clicked
             /\ ~Quiet(ldr'.recent[Len(ldr'.recent)]) => ldr'.consecutive_no_change = 0
       ]_vars
    /\ [][ (ldr.pc = "break" \/ (ldr.pc = "loop" /\ ldr.iteration = 10)) =>
             (ldr'.pc = "returned" /\ ldr'.total_clicks = ldr.total_clicks) ]_vars

\* the loader stopped after the fifth iteration: a click with an unchanged height
\* reset the count, then three quiet iterations followed
C20_Witness ==
    /\ ldr.pc = "returned"
    /\ ldr.iteration = 5
    /\ ldr.total_clicks >= 1
    /\ ThreeQuiet(ldr)

\* C22: no failure of a Page Driver call inside the loader leaves the loader as an
\* exception; the loader always goes on to return its click count.
C22_LoaderNeverRaises == ldr.pc # "raised"

\* the place of a stage in the iteration
StageRank(stage) == CASE stage = "text" -> 1 [] stage = "css" -> 2 [] stage = "scroll" -> 3

\* the number of successful clicks among the steps
Successes(steps) == Cardinality({k \in 1..Len(steps) : steps[k][2] = "true"})

-----------------------------------------------------------------------------
(* The pagination controller: find_next_page_with_strategy of both backends. *)

NoEl == [found |-> FALSE, visible |-> FALSE, href |-> <<>>]

\* variant: the link is followed whatever its host
find_next_page_anyhost(be, next_selector, el, error, cur) ==
    IF next_selector = <<>> THEN NoUrl
    ELSE IF error THEN NoUrl
    ELSE IF ~el.found \/ (be = "browser" /\ ~el.visible) THEN NoUrl
    ELSE IF el.href = <<>> \/ el.href[1] = "#" \/ el.href[1] = "js:" THEN NoUrl
    ELSE UrlJoin(cur, el.href)

\* find_next_page_with_strategy; el: what query_selector / select_one gives for
\* next_selector; error: the lookup raises; cur: the URL of the page
find_next_page_with_strategy(be, next_selector, el, error, cur) ==
    IF next_selector = <<>> THEN NoUrl
    ELSE IF error THEN NoUrl
    ELSE IF ~el.found \/ (be = "browser" /\ ~el.visible) THEN NoUrl
    ELSE IF el.href = <<>> \/ el.href[1] = "#" \/ el.href[1] = "js:" THEN NoUrl
    ELSE IF NetLoc(UrlJoin(cur, el.href)) = NetLoc(cur) THEN UrlJoin(cur, el.href)
    ELSE NoUrl

\* href attributes of a next link: none, fragment-only, script pseudo-URL, site-relative,
\* relative, query-only, absolute on the page's host, absolute on another host
Hrefs ==
    { <<>>, <<"#", "f">>, <<"js:", "v">>, <<"/", "b">>, <<"b">>, <<"?", "p">>,
      <<"x", "/", "b">>, <<"x", "/", "a">>, <<"y", "/", "b">> }

NextElements ==
    {NoEl} \cup { [found |-> TRUE, visible |-> v, href |-> h] : v \in BOOLEAN, h \in Hrefs }

PagInit ==
    /\ backend \in {"browser", "http"}
    /\ site = "graph"
    /\ url = <<"x", "/", "a">>
    /\ pc = "paginate"
    /\ all_pages = <<PageResult(url, url, "S1", 1, 1)>>
    /\ visited_urls = {normalize(url)}
    /\ current_url = url
    /\ final_url = url
    /\ page_num = 1
    /\ strategy = "S1"
    /\ elapsed = 0
    /\ round_num = 1
    /\ prev_content_count = 1
    /\ clicks = 0
    /\ extracted = 1
    /\ oracle_result = NoRequest
    /\ navigated = <<url>>
    /\ nav_error = FALSE
    /\ output = <<>>
    /\ exit_code = -1
    /\ failure = "none"
    /\ twin = TwinIdle
    /\ dec = DecIdle
    /\ ext = ExtIdle
    /\ ldr = LdrIdle
    /\ \E sel \in {<<>>, <<"next">>}, el \in NextElements, err \in BOOLEAN :
         pag = [pc |-> "ready", next_selector |-> sel, el |-> el, error |-> err,
                result |-> NoUrl]

\* next_url = find_next_page_with_strategy(...) and the update of current_url
PaginateWith ==
    /\ pc = "paginate"
    /\ pag.pc = "ready"
    /\ LET next_url == find_next_page_with_strategy(backend, pag.next_selector, pag.el,
                                                    pag.error, final_url)
       IN  /\ pag' = [pag EXCEPT !.pc = "returned", !.result = next_url]
           /\ current_url' = IF next_url # NoUrl /\ next_url # current_url
                             THEN next_url ELSE NoUrl
    /\ pc' = "page_check"
    /\ extracted' = 0
    /\ UNCHANGED <<backend, site, url, all_pages, visited_urls, final_url, page_num,
                   strategy, elapsed, round_num, prev_content_count, clicks,
                   oracle_result, navigated, output, exit_code, failure, twin, dec, ext, ldr,
                   nav_error>>

PagNext ==
    \/ PaginateWith
    \/ PageLoop
    \/ WriteOutput

SpecPaginate == PagInit /\ [][PagNext]_vars

(* Several pages in a row, with redirects: which URLs the crawl requests. The   *)
(* page between the load and the pagination step is taken to yield content.    *)

\* where a request can end up other than at the requested URL: on the same host,
\* or on another one
HostRedirects == {RedirectTarget, <<"y", "/", "a">>}

HostInit ==
    /\ backend \in {"browser", "http"}
    /\ site = "graph"
    /\ url = <<"x", "/", "a">>
    /\ pc = "navigate"
    /\ all_pages = <<>>
    /\ visited_urls = {normalize(url)}
    /\ current_url = url
    /\ final_url = NoUrl
    /\ page_num = 1
    /\ strategy = "S1"
    /\ elapsed = 0
    /\ round_num = 0
    /\ prev_content_count = 0
    /\ clicks = 0
    /\ extracted = 0
    /\ oracle_result = NoRequest
    /\ navigated = <<>>
    /\ nav_error = FALSE
    /\ output = <<>>
    /\ exit_code = -1
    /\ failure = "none"
    /\ twin = TwinIdle
    /\ dec = DecIdle
    /\ ext = ExtIdle
    /\ ldr = LdrIdle
    /\ pag = [pc |-> "idle", next_selector |-> <<"next">>, el |-> NoEl, error |-> FALSE,
              result |-> NoUrl, bases |-> <<>>]

\* page.goto(current_url) / fetch_html(current_url), which follows redirects, and the
\* page's record; pag.bases keeps the URL handed to find_next_page_with_strategy for
\* each page: current_url in the browser, final_url (resp.url) in the http backend
HostLoad ==
    /\ pc = "navigate"
    /\ navigated' = Append(navigated, current_url)
    /\ final_url' \in (IF backend = "http" THEN {current_url} \cup HostRedirects
                       ELSE {current_url})
    /\ all_pages' = Append(all_pages, PageResult(final_url', final_url', strategy, 1, page_num))
    /\ pc' = "paginate"
    /\ \E el \in NextElements :
         pag' = [pc |-> "ready", next_selector |-> <<"next">>, el |-> el, error |-> FALSE,
                 result |-> NoUrl, bases |-> Append(pag.bases, final_url')]
    /\ UNCHANGED <<backend, site, url, visited_urls, current_url, page_num, strategy,
                   elapsed, round_num, prev_content_count, clicks, extracted,
                   oracle_result, nav_error, output, exit_code, failure, twin, dec, ext, ldr>>

HostNext ==
    \/ HostLoad
    \/ PaginateWith
    \/ PageLoop
    \/ WriteOutput

SpecHosts == HostInit /\ [][HostNext]_vars

-----------------------------------------------------------------------------
(* A decoded strategy document with keys missing: how extract_with_strategy    *)
(* and find_next_page_with_strategy read it, on one page.                      *)

\* a strategy document with every key of the prompt's schema
FullStrategy ==
    [page_type |-> "article",
     content_selectors |-> [items |-> <<"item">>, main_container |-> <<"box">>],
     pagination |-> [next_selector |-> <<"next">>],
     ignore_selectors |-> << <<"ign">> >>,
     extraction_fields |-> <<TitleField>>]

Restrict(f, S) == [k \in S |-> f[k]]

\* the document with the top-level keys K, the content selectors C and the
\* pagination keys P
DocWith(K, C, P) ==
    [k \in K |-> IF k = "content_selectors" THEN Restrict(FullStrategy.content_selectors, C)
                 ELSE IF k = "pagination" THEN Restrict(FullStrategy.pagination, P)
                 ELSE FullStrategy[k]]

StrategyDocs ==
    UNION { UNION { { DocWith(K, C, P) : P \in SUBSET {"next_selector"} } :
                    C \in SUBSET {"items", "main_container"} } :
            K \in SUBSET DOMAIN FullStrategy }

\* dict.get(key, default)
Get(doc, key, default) == IF key \in DOMAIN doc THEN doc[key] ELSE default

\* variant: the default of the log line in generate_scraping_strategy
PageType_unknown(doc) == Get(doc, "page_type", "unknown")

\* strategy.get("page_type", "generic")
PageType(doc) == Get(doc, "page_type", "generic")

\* strategy.get("pagination", {}).get("next_selector")
NextSelector(doc) == Get(Get(doc, "pagination", <<>>), "next_selector", <<>>)

\* what extract_with_strategy reads from the document
StrategyOf(doc) ==
    [items |-> Get(Get(doc, "content_selectors", <<>>), "items", <<>>),
     main_container |-> Get(Get(doc, "content_selectors", <<>>), "main_container", <<>>),
     fields |-> Get(doc, "extraction_fields", <<>>),
     ignore |-> Get(doc, "ignore_selectors", <<>>)]

DefInit ==
    /\ backend \in {"browser", "http"}
    /\ site = "graph"
    /\ url = <<"x", "/", "a">>
    /\ pc = "extract"
    /\ all_pages = <<>>
    /\ visited_urls = {normalize(url)}
    /\ current_url = url
    /\ final_url = url
    /\ page_num = 1
    /\ strategy = "S1"
    /\ elapsed = 0
    /\ round_num = 1
    /\ prev_content_count = 0
    /\ clicks = 0
    /\ extracted = 0
    /\ oracle_result = NoRequest
    /\ navigated = <<url>>
    /\ nav_error = FALSE
    /\ output = <<>>
    /\ exit_code = -1
    /\ failure = "none"
    /\ twin = TwinIdle
    /\ dec = DecIdle
    /\ ldr = LdrIdle
    /\ \E doc \in StrategyDocs :
         /\ \E d \in {q \in Doms : Len(q) <= 2} :
              ext = [pc |-> "main", dom |-> d, st |-> StrategyOf(doc), data |-> NoData,
                     doc |-> doc]
         /\ \E el \in {NoEl, [found |-> TRUE, visible |-> TRUE, href |-> <<"/", "b">>]} :
              pag = [pc |-> "ready", next_selector |-> NextSelector(doc), el |-> el,
                     error |-> FALSE, result |-> NoUrl]

\* main() after extract_with_strategy: the RuntimeError of round 1 / page 1 is
\* raised on, a returned page is stored
DefStore ==
    /\ pc = "extract"
    /\ ext.pc \in {"returned", "raised"}
    /\ IF ext.pc = "raised"
       THEN Raise("content") /\ UNCHANGED <<all_pages, extracted>>
       ELSE /\ all_pages' = Append(all_pages,
                                   PageResult(final_url, final_url, PageType(ext.doc),
                                              Len(ext.data.content), page_num))
            /\ extracted' = Len(ext.data.content)
            /\ pc' = "paginate"
            /\ UNCHANGED <<exit_code, failure>>
    /\ UNCHANGED <<backend, site, url, visited_urls, current_url, final_url, page_num,
                   strategy, elapsed, round_num, prev_content_count, clicks,
                   oracle_result, navigated, nav_error, output, twin, dec, engVars>>

DefNext ==
    \/ ExtNext
    \/ DefStore
    \/ PaginateWith
    \/ PageLoop
    \/ WriteOutput

SpecDefaults == DefInit /\ [][DefNext]_vars

-----------------------------------------------------------------------------
(* generate_scraping_strategy with its heartbeat thread. dec holds the state   *)
(* of the call: pc, the position of the calling thread; hb, the position of    *)
(* the heartbeat thread; stop, the Event stop_heartbeat; ticks, the local      *)
(* counter of heartbeat().                                                     *)

MaxTicks == 3

GenIdle == [pc |-> "idle", hb |-> "none", stop |-> FALSE, ticks |-> 0,
            res |-> NoRequest, raised |-> FALSE]

HbInit ==
    /\ backend \in {"browser", "http"}
    /\ site = "graph"
    /\ url = <<"x", "/", "a">>
    /\ pc = "strategy"
    /\ all_pages = <<>>
    /\ visited_urls = {normalize(url)}
    /\ current_url = url
    /\ final_url = url
    /\ page_num = 1
    /\ strategy = "None"
    /\ elapsed = 0
    /\ round_num = 0
    /\ prev_content_count = 0
    /\ clicks = 0
    /\ extracted = 0
    /\ oracle_result = NoRequest
    /\ navigated = <<url>>
    /\ nav_error = FALSE
    /\ output = <<>>
    /\ exit_code = -1
    /\ failure = "none"
    /\ twin = TwinIdle
    /\ dec = GenIdle
    /\ EngIdle

\* stop_heartbeat = threading.Event(); hb_thread.start()
GenStart ==
    /\ pc = "strategy" /\ dec.pc = "idle"
    /\ dec' = [dec EXCEPT !.pc = "calling", !.hb = "waiting"]
    /\ UNCHANGED <<crawlVars, engVars>>

\* response_text = claude_call(prompt): it returns, or an exception leaves it
GenCall ==
    /\ dec.pc = "calling"
    /\ \/ \E res \in OracleResults : dec' = [dec EXCEPT !.pc = "finally", !.res = res]
       \/ dec' = [dec EXCEPT !.pc = "finally", !.raised = TRUE]
    /\ UNCHANGED <<crawlVars, engVars>>

\* variant: the event is set only when the call returned
GenStop_onreturn ==
    /\ dec.pc = "finally"
    /\ dec' = [dec EXCEPT !.pc = "join", !.stop = ~dec.raised]
    /\ UNCHANGED <<crawlVars, engVars>>

\* finally: stop_heartbeat.set()
GenStop ==
    /\ dec.pc = "finally"
    /\ dec' = [dec EXCEPT !.pc = "join", !.stop = TRUE]
    /\ UNCHANGED <<crawlVars, engVars>>

\* hb_thread.join(timeout=1): the thread has exited, or one second has passed
GenJoin ==
    /\ dec.pc = "join"
    /\ dec' = [dec EXCEPT !.pc = "after"]
    /\ UNCHANGED <<crawlVars, engVars>>

\* the rest of generate_scraping_strategy and the assignment in main()
GenFinish ==
    /\ dec.pc = "after"
    /\ LET gen == generate_scraping_strategy(dec.res)
       IN  IF ~dec.raised /\ gen.ok
           THEN /\ strategy' = gen.strategy
                /\ pc' = AfterStrategy
                /\ dec' = [dec EXCEPT !.pc = "returned"]
                /\ UNCHANGED <<exit_code, failure>>
           ELSE /\ strategy' = strategy
                /\ Raise("strategy")
                /\ dec' = [dec EXCEPT !.pc = "raised"]
    /\ oracle_result' = dec.res
    /\ UNCHANGED <<backend, site, url, all_pages, visited_urls, current_url, final_url,
                   page_num, elapsed, round_num, prev_content_count, clicks, extracted,
                   navigated, nav_error, output, twin, engVars>>

\* heartbeat(): stop_heartbeat.wait(30) returns False after 30 s without the event
HbTimeout ==
    /\ dec.hb = "waiting" /\ ~dec.stop
    /\ dec.ticks < MaxTicks
    /\ dec' = [dec EXCEPT !.hb = "logging"]
    /\ UNCHANGED <<crawlVars, engVars>>

\* heartbeat(): elapsed += 30; log(...)
HbLog ==
    /\ dec.hb = "logging"
    /\ dec' = [dec EXCEPT !.hb = "waiting", !.ticks = dec.ticks + 1]
    /\ UNCHANGED <<crawlVars, engVars>>

\* heartbeat(): stop_heartbeat.wait(30) returns True, the loop and the thread end
HbExit ==
    /\ dec.hb = "waiting" /\ dec.stop
    /\ dec' = [dec EXCEPT !.hb = "exited"]
    /\ UNCHANGED <<crawlVars, engVars>>

GenNext == GenStart \/ GenCall \/ GenStop \/ GenJoin \/ GenFinish

HbNext == HbTimeout \/ HbLog \/ HbExit

HeartbeatNext ==
    \/ GenStart
    \/ GenCall
    \/ GenStop
    \/ GenJoin
    \/ GenFinish
    \/ HbTimeout
    \/ HbLog
    \/ HbExit

\* both threads are scheduled
SpecHeartbeat ==
    HbInit /\ [][HeartbeatNext]_vars /\ WF_vars(GenNext) /\ WF_vars(HbNext)

-----------------------------------------------------------------------------
(* scrape_tweets of scrape_x.py: the scroll loop. ldr holds its state: pc, the  *)
(* position in the loop body; tweets, the values of the dict in insertion       *)
(* order; the counters of the function; judged, the number of calls of the      *)
(* Ollama judge; renavs, the re-navigations since new tweets were last found.   *)

MaxTweets == 2
MaxBatch == 2

max_no_new == 15
max_ollama_retries == 3
max_cooldowns == 3
MAX_CONSECUTIVE_RELOADS == 3

\* every test on no_new_count gives the same answer from 2 * max_no_new on
NoNewCap == 2 * max_no_new

TweetIds == 1..MaxTweets

\* an entry of all_tweet_data: a tweet with its id, or one without (id 0)
BatchesOfLen(k) == [1..k -> TweetIds \cup {0}]

Batches == UNION { BatchesOfLen(k) : k \in 0..MaxBatch }

HasId(tw, tid) == \E i \in 1..Len(tw) : tw[i].tweet_id = tid

\* variant: the tweet is stored without the membership test
AddTweet_always(tw, tid) == IF tid = 0 THEN tw ELSE Append(tw, [tweet_id |-> tid])

\* if data and data.get("tweet_id"): if tid not in tweets: tweets[tid] = data
AddTweet(tw, tid) ==
    IF tid = 0 \/ HasId(tw, tid) THEN tw ELSE Append(tw, [tweet_id |-> tid])

RECURSIVE AddBatch(_, _)
AddBatch(tw, batch) ==
    IF batch = <<>> THEN tw
    ELSE AddTweet(AddBatch(tw, SubSeq(batch, 1, Len(batch) - 1)), batch[Len(batch)])

\* what _handle_interruptions finds: a Retry or Show-more button that it clicks, a
\* click that raises, the error banner (reload), a reload that raises, or nothing
PageConditions == {"button", "click_raises", "error", "reload_raises", "nothing"}

\* _handle_interruptions(page, consecutive_reloads)
handle_interruptions(cond, consecutive_reloads) ==
    IF cond = "button" THEN 0
    ELSE IF cond = "error" /\ consecutive_reloads < MAX_CONSECUTIVE_RELOADS
    THEN consecutive_reloads + 1
    ELSE consecutive_reloads

\* _cooldown_and_renavigate(): [ok |-> its return value, st |-> the state after it]
cooldown_and_renavigate(st) ==
    IF st.cooldown_count + 1 > max_cooldowns
    THEN [ok |-> FALSE, st |-> [st EXCEPT !.cooldown_count = st.cooldown_count + 1]]
    ELSE [ok |-> TRUE,
          st |-> [st EXCEPT !.cooldown_count = st.cooldown_count + 1,
                            !.consecutive_reloads = 0, !.renavs = st.renavs + 1]]

\* if not _cooldown_and_renavigate(): break; no_new_count = 0; continue
AfterCooldown(st) ==
    LET c == cooldown_and_renavigate(st)
    IN  IF c.ok THEN [c.st EXCEPT !.pc = "top", !.no_new_count = 0]
        ELSE [c.st EXCEPT !.pc = "returned"]

Judgments == {"A", "B", "C", "D", "unknown"}

TwInit ==
    /\ CrawlOff
    /\ dec = DecIdle
    /\ ext = ExtIdle
    /\ pag = PagIdle
    /\ ldr = [pc |-> "top", tweets |-> <<>>, no_new_count |-> 0, consecutive_reloads |-> 0,
              ollama_retry_count |-> 0, cooldown_count |-> 0, judged |-> 0, renavs |-> 0]

\* extract_all_tweets_batch, the loop over all_tweet_data and the counters
TwExtract ==
    /\ ldr.pc = "top"
    /\ \E batch \in Batches :
         LET tw == AddBatch(ldr.tweets, batch)
         IN  ldr' = IF Len(tw) > Len(ldr.tweets)
                    THEN [ldr EXCEPT !.pc = "error_check", !.tweets = tw,
                                     !.no_new_count = 0, !.consecutive_reloads = 0,
                                     !.cooldown_count = 0, !.renavs = 0]
                    ELSE [ldr EXCEPT !.pc = "error_check",
                                     !.no_new_count = Min({ldr.no_new_count + 1, NoNewCap})]
    /\ UNCHANGED <<crawlVars, dec, ext, pag>>

\* if no_new_count >= 3: error_text = _detect_error(page); if error_text: ...
TwErrorCheck ==
    /\ ldr.pc = "error_check"
    /\ \E error_text \in BOOLEAN, cond \in PageConditions :
         IF ldr.no_new_count >= 3 /\ error_text
         THEN LET st == [ldr EXCEPT !.consecutive_reloads =
                                       handle_interruptions(cond, ldr.consecutive_reloads)]
              IN  ldr' = IF st.consecutive_reloads >= 3 THEN AfterCooldown(st)
                         ELSE [st EXCEPT !.pc = "top"]
         ELSE ldr' = [ldr EXCEPT !.pc = "judge_check"]
    /\ UNCHANGED <<crawlVars, dec, ext, pag>>

\* if no_new_count >= max_no_new: the spinner test and the Ollama judgment
TwJudge ==
    /\ ldr.pc = "judge_check"
    /\ \E is_loading \in BOOLEAN, judgment \in Judgments :
         IF ldr.no_new_count < max_no_new THEN ldr' = [ldr EXCEPT !.pc = "scroll"]
         ELSE IF is_loading /\ ldr.no_new_count < max_no_new * 2
         THEN ldr' = [ldr EXCEPT !.pc = "top"]
         ELSE IF ldr.ollama_retry_count >= max_ollama_retries
         THEN ldr' = [ldr EXCEPT !.pc = "returned"]
         ELSE LET st == [ldr EXCEPT !.judged = ldr.judged + 1]
                  counted == [st EXCEPT !.ollama_retry_count = ldr.ollama_retry_count + 1]
              IN  ldr' = IF judgment = "B" THEN [st EXCEPT !.pc = "returned"]
                         ELSE IF judgment \in {"C", "D"} THEN AfterCooldown(counted)
                         ELSE IF judgment = "A"
                         THEN [counted EXCEPT !.pc = "top", !.no_new_count = 0]
                         ELSE IF counted.ollama_retry_count >= max_ollama_retries
                         THEN [counted EXCEPT !.pc = "returned"]
                         ELSE [counted EXCEPT !.pc = "top", !.no_new_count = 0]
    /\ UNCHANGED <<crawlVars, dec, ext, pag>>

\* the scroll (page.evaluate, which can raise) and the wait, with
\* _handle_interruptions when no_new_count >= 3
TwScroll ==
    /\ ldr.pc = "scroll"
    /\ \E raises \in BOOLEAN, cond \in PageConditions :
         ldr' = IF raises THEN [ldr EXCEPT !.pc = "raised"]
                ELSE IF ldr.no_new_count >= 3
                THEN [ldr EXCEPT !.pc = "top", !.consecutive_reloads =
                                    handle_interruptions(cond, ldr.consecutive_reloads)]
                ELSE [ldr EXCEPT !.pc = "top"]
    /\ UNCHANGED <<crawlVars, dec, ext, pag>>

TwNext ==
    \/ TwExtract
    \/ TwErrorCheck
    \/ TwJudge
    \/ TwScroll

\* the loop keeps running until it returns or raises
SpecTweets == TwInit /\ [][TwNext]_vars /\ WF_vars(TwNext)

-----------------------------------------------------------------------------
(* Properties of the normalization *)

\* a query string, a fragment, trailing slashes, or nothing
IsTail(t) ==
    LET stop == {i \in 1..Len(t) : t[i] # "/"}
    IN  stop = {} \/ t[Min(stop)] \in {"?", "#"}

\* u and v differ only in query string, fragment or trailing slashes
SameButTail(u, v) ==
    \E k \in 0..Min({Len(u), Len(v)}) :
        /\ SubSeq(u, 1, k) = SubSeq(v, 1, k)
        /\ IsTail(SubSeq(u, k + 1, Len(u)))
        /\ IsTail(SubSeq(v, k + 1, Len(v)))

\* C12: a normalized URL holds no query string, no fragment and no trailing slash
\* and normalizes to itself; a URL that differs from a visited one only in query
\* string, fragment or trailing slashes normalizes to the visited entry, is not
\* visited, and ends the page loop.
C12_Normalization ==
    /\ [](\A n \in visited_urls :
            /\ normalize(n) = n
            /\ \A i \in 1..Len(n) : n[i] \notin {"?", "#"}
            /\ n # <<>> => n[Len(n)] # "/")
    /\ [](\A i \in 1..Len(navigated) :
            /\ SameButTail(navigated[i], normalize(navigated[i]))
            /\ normalize(navigated[i]) \in visited_urls)
    /\ [][ (pc = "page_check" /\ current_url # NoUrl
              /\ \E i \in 1..Len(navigated) : SameButTail(navigated[i], current_url))
           => /\ normalize(current_url) \in visited_urls
              /\ visited_urls' = visited_urls
              /\ page_num' = page_num
              /\ pc' = "build" ]_vars

\* the example: x/a?p#f was visited and x/a/ ended the page loop
C12_Witness ==
    /\ site = "pair" /\ pc = "build" /\ page_num = 1
    /\ navigated = << <<"x", "/", "a", "?", "p", "#", "f">> >>
    /\ current_url = <<"x", "/", "a", "/">>
    /\ visited_urls = { <<"x", "/", "a">> }

-----------------------------------------------------------------------------
(* Properties of the pagination controller *)

\* C15: the controller returns a URL only when the strategy has a next selector,
\* the lookup did not fail, the element exists (and is visible, in the browser), its
\* href is non-empty, not fragment-only and not a script pseudo-URL, and the
\* resolved URL is on the page's host; it then returns the resolved URL. In every
\* other case it returns none, and with none the crawl writes its output and ends.
C15_NextPageConditions ==
    /\ [](pag.pc = "returned" =>
            LET ok == /\ pag.next_selector # <<>>
                      /\ ~pag.error
                      /\ pag.el.found
                      /\ backend = "browser" => pag.el.visible
                      /\ pag.el.href # <<>>
                      /\ pag.el.href[1] \notin {"#", "js:"}
                      /\ UrlJoin(final_url, pag.el.href)[1] = final_url[1]
            IN  /\ ok => pag.result = UrlJoin(final_url, pag.el.href)
                /\ ~ok => pag.result = NoUrl)
    /\ [][ (pag.pc = "ready" /\ pag'.result = NoUrl) =>
              (current_url' = NoUrl /\ pc' = "page_check") ]_vars
    /\ [][ (pc = "page_check" /\ current_url = NoUrl) => pc' = "build" ]_vars
    /\ [][ pc = "build" => (pc' = "done" /\ exit_code' = 0 /\ failure' = "none") ]_vars

\* a visible link to another host was found and the crawl ended with its one page
C15_Witness ==
    /\ pc = "done" /\ pag.pc = "returned" /\ pag.result = NoUrl
    /\ pag.el.found /\ pag.el.visible /\ pag.el.href = <<"y", "/", "b">>
    /\ ~pag.error /\ pag.next_selector # <<>>
    /\ Len(all_pages) = 1

-----------------------------------------------------------------------------
(* Properties of the decoder *)

\* the position after the JSON value that the first '{' or '[' of s opens, 0 if it
\* opens none
FirstValueEnd(s) ==
    LET f == FirstOpen(s)
    IN  IF f.start_pos = 0 THEN 0 ELSE ParseValue(s, f.start_pos)

\* C10: for a text without a fenced block whose first '{' or '[' opens a JSON
\* value, the scan stops exactly at the bracket that closes that value, and the
\* result is the text from the opening bracket to it, whatever brackets, quotes
\* and escapes the string literals hold and whatever text follows.
C10_BracketScan ==
    (~FenceSearch(dec.text).found /\ FirstValueEnd(dec.text) # 0) =>
        /\ dec.st.end_pos # 0 => dec.st.end_pos = FirstValueEnd(dec.text) - 1
        /\ dec.pc = "done" =>
              dec.result = Found(SubSeq(dec.text, FirstOpen(dec.text).start_pos,
                                        FirstValueEnd(dec.text) - 1))

\* a value with a closing bracket and an escaped quote inside a string literal was
\* returned from a text that goes on, with more brackets, after the value
C10_Witness ==
    /\ dec.pc = "done" /\ dec.result.found
    /\ ~FenceSearch(dec.text).found
    /\ LET v == dec.result.value
           last == dec.start_pos + Len(v) - 1
       IN  /\ \E j \in 2..(Len(v) - 1) : v[j] = dec.close_char
           /\ \E j \in 1..(Len(v) - 1) : v[j] = BSLASH /\ v[j + 1] = QUOTE
           /\ \E j \in (last + 1)..Len(dec.text) : dec.text[j] \in {"{", "}", "[", "]"}

\* the fence markers of s, in order
Markers(s) ==
    LET F == Fences(s)
    IN  [k \in 1..Cardinality(F) |-> CHOOSE p \in F : Cardinality({q \in F : q < p}) = k - 1]

\* the interior of the k-th fenced block of s (markers 2k-1 and 2k), without the
\* optional json tag and the surrounding whitespace
BlockInterior(s, k) ==
    LET m == Markers(s)
        p == m[2 * k - 1]
        q == m[2 * k]
        b == IF HasJsonTag(s, p + 3) THEN p + 7 ELSE p + 3
    IN  IF b <= q - 1 THEN Strip(SubSeq(s, b, q - 1)) ELSE <<>>

\* the fenced blocks of s whose interior is valid JSON
JsonBlocks(s) ==
    {k \in 1..(Cardinality(Fences(s)) \div 2) : JsonLoads(BlockInterior(s, k))}

\* C11: when the text holds a fenced block whose interior is valid JSON, the decoder
\* returns the interior of such a block (the first one), whatever else the text holds.
C11_FencedBlockDecoded ==
    (dec.pc = "done" /\ JsonBlocks(dec.text) # {}) =>
        dec.result = Found(BlockInterior(dec.text, Min(JsonBlocks(dec.text))))

\* the positions of s that hold a '{' or a '['
Opens(s) == {i \in 1..Len(s) : s[i] \in {"{", "["}}

\* v is a contiguous part of s
IsSubstring(v, s) == \E a \in 1..(Len(s) + 1) : \E b \in 0..Len(s) : v = SubSeq(s, a, b)

\* the objects and arrays that are a contiguous part of s and start after position p
ValuesAfter(s, p) ==
    {a \in Opens(s) : a > p /\ \E b \in a..Len(s) : JsonLoads(SubSeq(s, a, b))}

\* C28: a result of the decoder is a contiguous part of the text that parses as
\* JSON; when the fenced block gave no result, a result starts at the first '{' or
\* '[' of the text and ends at the bracket where the scan stopped, and there is no
\* result when the scan found no closing bracket or the span does not parse,
\* whatever JSON value the text holds further on.
C28_OnlyFirstSpan ==
    dec.pc = "done" =>
        /\ dec.result.found =>
              (JsonLoads(dec.result.value) /\ IsSubstring(dec.result.value, dec.text))
        /\ (~FencedCandidate(dec.text).found /\ dec.result.found) =>
              /\ dec.st.end_pos # 0
              /\ dec.result.value = SubSeq(dec.text, Min(Opens(dec.text)), dec.st.end_pos)
        /\ ( /\ ~FencedCandidate(dec.text).found
             /\ Opens(dec.text) # {}
             /\ \/ dec.st.end_pos = 0
                \/ ~JsonLoads(SubSeq(dec.text, Min(Opens(dec.text)), dec.st.end_pos)) )
           => ~dec.result.found

\* the decoder failed on a text whose first span closes but does not parse, while a
\* JSON object stands later in the text
C28_Witness ==
    /\ dec.pc = "done" /\ ~dec.result.found
    /\ ~FenceSearch(dec.text).found
    /\ dec.st.end_pos > dec.start_pos
    /\ ValuesAfter(dec.text, dec.st.end_pos) # {}

-----------------------------------------------------------------------------
(* Properties of the requested URLs *)

OnStartHost(u) == NetLoc(u) = NetLoc(url)

\* every URL the crawl requests has the host of the start URL
C33_AllOnStartHost == \A i \in 1..Len(navigated) : OnStartHost(navigated[i])

\* C33: every URL the crawl requests after the start URL has the host of the URL the
\* previous page's link was resolved against: the requested URL in the browser
\* backend, the final URL of the fetch in the http backend. Hence every requested
\* URL has the start URL's host in the browser backend, and in the http backend as
\* long as no fetch was redirected to another host.
C33_OnPageHost ==
    /\ \A i \in 2..Len(navigated) : NetLoc(navigated[i]) = NetLoc(pag.bases[i - 1])
    /\ backend = "browser" => C33_AllOnStartHost
    /\ (\A j \in 1..Len(pag.bases) : OnStartHost(pag.bases[j])) => C33_AllOnStartHost

\* the http backend was redirected to another host and requested the next page there
C33_Witness ==
    /\ backend = "http" /\ Len(navigated) = 2
    /\ ~OnStartHost(pag.bases[1])
    /\ NetLoc(navigated[2]) = NetLoc(pag.bases[1])

-----------------------------------------------------------------------------
(* Properties of a strategy document with missing keys *)

Missing(key) == key \notin DOMAIN ext.doc

MissingIn(key, sub) == Missing(key) \/ sub \notin DOMAIN ext.doc[key]

\* the engine has run its main-content branch
MainDone == ext.pc \in {"media", "check", "returned", "raised"}

\* C31: whatever keys the strategy document lacks, the only failure is
\* content-not-found; without ignore_selectors no element is excluded; without
\* page_type the stored page is generic; without pagination or next_selector no next
\* page is found and the crawl goes to the output with exit code 0; without
\* content_selectors the whole-document branch runs; without extraction_fields no
\* record holds a field value.
C31_MissingKeys ==
    /\ [](failure \in {"none", "content"})
    /\ [](failure = "content" => (ext.pc = "raised" /\ ext.data.content = <<>>))
    /\ [](Missing("ignore_selectors") =>
            \A k \in 1..Len(ext.dom) : ~should_ignore(backend, ext.dom, k, ext.st.ignore))
    /\ []((Missing("page_type") /\ Len(all_pages) = 1) => all_pages[1].page_type = "generic")
    /\ []((MissingIn("pagination", "next_selector") /\ pc \in {"page_check", "build", "done"})
            => (current_url = NoUrl /\ pag.result = NoUrl))
    /\ [][(MissingIn("pagination", "next_selector") /\ pc = "page_check") => pc' = "build"]_vars
    /\ [][pc = "build" => (pc' = "done" /\ exit_code' = 0)]_vars
    /\ []((Missing("content_selectors") /\ MainDone) =>
            /\ SelectedBranch(ext.dom, ext.st) = "global"
            /\ ext.data.content = extract_fields_global(backend, ext.dom, ext.st))
    /\ []((Missing("extraction_fields") /\ MainDone) =>
            \A r \in 1..Len(ext.data.content) :
               \A e \in 1..Len(ext.data.content[r].entries) :
                  ext.data.content[r].entries[e].name = "text")

\* a document with nothing but extraction_fields gave a page of type generic, and the
\* crawl ended with its output
C31_Witness ==
    /\ DOMAIN ext.doc = {"extraction_fields"}
    /\ pc = "done" /\ exit_code = 0
    /\ Len(all_pages) = 1 /\ all_pages[1].page_type = "generic"
    /\ ext.data.content[1].by = "global"

-----------------------------------------------------------------------------
(* Properties of the heartbeat thread *)

\* C38: once the heartbeat thread is started, generate_scraping_strategy does not
\* return or raise before the stop event is set, whatever the oracle call did; the
\* event is never cleared; after it is set the thread logs at most the line it was
\* writing and exits; and no step of the thread changes the state of the
\* orchestration loop.
C38_HeartbeatStopped ==
    /\ [](dec.pc \in {"after", "returned", "raised"} => dec.stop)
    /\ []((dec.hb # "none" /\ pc # "strategy") => dec.stop)
    /\ [][dec.stop => dec'.stop]_vars
    /\ [][(dec.stop /\ dec.hb = "waiting") => dec'.hb # "logging"]_vars
    /\ [][HbNext => UNCHANGED crawlVars]_vars
    /\ (dec.hb = "waiting" ~> dec.hb = "exited")
    /\ (dec.stop ~> dec.hb = "exited")

\* the oracle call raised, the join gave up while the thread was writing a line, and
\* generate_scraping_strategy raised with the event set
C38_Witness ==
    /\ dec.pc = "raised" /\ dec.raised /\ dec.stop
    /\ dec.hb = "logging" /\ dec.ticks >= 1
    /\ pc = "failed"

-----------------------------------------------------------------------------
(* Properties of scrape_tweets *)

\* C36: the scroll loop ends. The tweet ids are finitely many, so every run
\* reaches a point after which no new tweet id is extracted; from there the loop
\* returns (or raises) whatever the page shows.
C36_LoopTerminates == <>(ldr.pc \in {"returned", "raised"})

\* C37: the Ollama judge is called at most max_ollama_retries times in a run; at
\* most max_cooldowns re-navigations happen without new tweets in between; no two
\* collected tweets have the same id; the collected tweets are only added to.
C37_BoundedRecovery ==
    /\ [](ldr.judged <= max_ollama_retries)
    /\ [](ldr.renavs <= max_cooldowns)
    /\ [](\A i, j \in 1..Len(ldr.tweets) :
             ldr.tweets[i].tweet_id = ldr.tweets[j].tweet_id => i = j)
    /\ [][ /\ Len(ldr'.tweets) >= Len(ldr.tweets)
           /\ SubSeq(ldr'.tweets, 1, Len(ldr.tweets)) = ldr.tweets ]_vars

\* the judge was called three times and three re-navigations in a row were made,
\* with both tweets collected
C37_Witness ==
    /\ ldr.judged = max_ollama_retries /\ ldr.renavs = max_cooldowns
    /\ Len(ldr.tweets) = MaxTweets

====
